---- MODULE Spec2Model ----
(***************************************************************************)
(* spiderbrain: the Node Store (src/core/storage.ts), the tag service it   *)
(* calls (src/core/tags/service.ts), the Retry Executor                    *)
(* (src/utils/retry.ts), the Ollama gateway (src/ai/models/ollama.ts),     *)
(* the TagGenerator (src/ai/tags/generator.ts), the NodeSearch index       *)
(* (src/core/search.ts), the ConfigManager (src/core/config.ts) and the    *)
(* commands of the command line that use them, as state machines.          *)
(*                                                                         *)
(* The Node Store is modelled at the granularity of its await points: a    *)
(* call of an async method is a record in `calls` whose pc names the await *)
(* it is suspended at; the code between two awaits is one atomic step,     *)
(* as it is on the JavaScript event loop.  The effect of a file operation  *)
(* on the log (FsEffect) and the continuation of the method that awaited   *)
(* it (Resume) are two steps.  A command of the command line runs alone in *)
(* its process: each call it awaits is one step, the files it meets are    *)
(* inputs of the step.                                                     *)
(***************************************************************************)
EXTENDS Integers, Sequences, FiniteSets, TLC

VARIABLES
    fileExists,   \* nodes.jsonl exists in the data directory
    log,          \* the lines of nodes.jsonl, each ended by "\n"
    nodes,        \* NodeStorage.nodes: Map<string, Node>, in insertion order
    isTestMode,   \* NodeStorage.isTestMode (no AIService given)
    calls,        \* the calls of async methods of the store instance
    nextId,       \* the next value randomUUID() returns
    opCount,      \* history: calls started so far
    createdLog,   \* history: the log was built by successful appends only
    created,      \* history: nodes returned by create since the log was empty
    deleted,      \* history: ids deleted successfully on this instance
    inst,         \* history of this instance: [used, loadedFirst, raced]
    rcalls,       \* the retry() invocations in flight
    ollama,       \* the OllamaModel instance: [ready, config, retryConfig]
    backend,      \* the models the Ollama server lists
    gcalls,       \* the calls of initialize and generate on the instance
    gops,         \* history: gateway calls started so far
    extraction,   \* a call of TagGenerator.extractTags: input and result
    tagcall,      \* a call of processTags, formatTags or filterTags
    tgen,         \* the TagGenerator instance and its generateTags call
    nsearch,      \* the NodeSearch instance and the last call made on it
    cfg           \* a command's ConfigManager and NodeStorage, and the files

storeVars == <<fileExists, log, nodes, isTestMode, calls, nextId,
               opCount, createdLog, created, deleted, inst>>
retryVars == <<rcalls>>
gatewayVars == <<ollama, backend, gcalls, gops>>
tagVars == <<extraction>>
pipeVars == <<tagcall, tgen>>
searchVars == <<nsearch>>
configVars == <<cfg>>
vars == <<fileExists, log, nodes, isTestMode, calls, nextId,
          opCount, createdLog, created, deleted, inst, rcalls,
          ollama, backend, gcalls, gops, extraction, tagcall, tgen, nsearch,
          cfg>>

\* What the actions of one component leave alone
outsideStore ==
    <<retryVars, gatewayVars, tagVars, pipeVars, searchVars, configVars>>
outsideRetry ==
    <<storeVars, gatewayVars, tagVars, pipeVars, searchVars, configVars>>
outsideGateway ==
    <<storeVars, tagVars, pipeVars, searchVars, configVars>>
outsideTags ==
    <<storeVars, retryVars, gatewayVars, pipeVars, searchVars, configVars>>
outsidePipe ==
    <<storeVars, retryVars, gatewayVars, tagVars, searchVars, configVars>>
outsideSearch ==
    <<storeVars, retryVars, gatewayVars, tagVars, pipeVars, configVars>>
outsideConfig ==
    <<storeVars, retryVars, gatewayVars, tagVars, pipeVars, searchVars>>

----------------------------------------------------------------------------
(* Bounds of the model *)

MaxIds == 2          \* ids randomUUID() hands out before create is cut off
MaxInFlight == 2     \* overlapping calls in the concurrent specification
MaxOps == 3          \* calls started in one run, serialised use
MaxLongOps == 4      \* calls started in one longer serialised run
MaxConcOps == 3      \* calls started in one run, overlapping use
MaxRetryCalls == 2   \* retry() invocations in flight
MaxLiveCalls == 1    \* retry() invocations followed to their end
MaxGatewayCalls == 1  \* calls of initialize and generate in flight
MaxGatewayOps == 2   \* calls of initialize and generate started in one run
MaxChunks == 3       \* pieces a model response is written with

----------------------------------------------------------------------------
(* Values *)

Undefined == "<undefined>"

Ids == 1..MaxIds                      \* UUIDs, as the order of generation
NoId == 0
Timestamps == {1}                     \* Date.now()
GenTagLists == {<<>>, <<"#g">>}       \* tag texts a successful pipeline yields

TagErrorCodes == {"INITIALIZATION_ERROR", "MODEL_ERROR", "VALIDATION_ERROR",
                  "FORMAT_ERROR", "GENERATION_ERROR"}

\* interface Node
MkNode(id, ts, text, tags, hasMeta, meta) ==
    [id |-> id, timestamp |-> ts, raw_text |-> text, tags |-> tags,
     hasMetadata |-> hasMeta, metadata |-> meta]

NoNode == MkNode(NoId, 0, "", <<>>, FALSE, {})

\* interface CreateNodeOptions: tags and metadata are optional
MkOptions(text, hasTags, tags, hasMeta, meta) ==
    [raw_text |-> text, hasTags |-> hasTags, tags |-> tags,
     hasMetadata |-> hasMeta, metadata |-> meta]

\* The options callers pass: text alone; text with tags and metadata; text
\* with an empty tag list and a metadata object holding an undefined value
ValidCreateOptions ==
    {MkOptions("a", FALSE, <<>>, FALSE, {}),
     MkOptions("a", TRUE, <<"t">>, TRUE, {<<"source", "s.md">>}),
     MkOptions("a", TRUE, <<>>, TRUE, {<<"source", Undefined>>})}

\* Partial<Node>: `has` is the set of keys the partial carries
MkPartial(has, id, text, tags) ==
    [has |-> has, id |-> id, raw_text |-> text, tags |-> tags]

NoPartial == MkPartial({}, NoId, "", <<>>)

Partials ==
    {MkPartial({"raw_text"}, NoId, t, <<>>) : t \in {"", "b"}}
    \cup {MkPartial({"tags"}, NoId, "", <<"u">>)}
    \cup {MkPartial({"id"}, i, "", <<>>) : i \in Ids}

----------------------------------------------------------------------------
(* JSON: one node per line *)

BlankLine == <<>>

\* JSON.stringify of a metadata object: keys whose value is undefined are dropped
StringifyMeta(meta) == {kv \in meta : kv[2] # Undefined}

\* JSON.stringify(node): the keys in insertion order, metadata left out when
\* it is undefined
JsonStringify(n) ==
    <<  <<"id", n.id>>, <<"timestamp", n.timestamp>>,
        <<"raw_text", n.raw_text>>, <<"tags", n.tags>> >>
    \o (IF n.hasMetadata THEN << <<"metadata", StringifyMeta(n.metadata)>> >>
        ELSE <<>>)

\* line.trim() is non-empty
IsBlank(line) == Len(line) = 0

\* A line of text that is not JSON (an opening brace and nothing else)
MalformedLine == << <<"{", NoId>> >>

\* JSON.parse(line) throws a SyntaxError
IsMalformed(line) == Len(line) > 0 /\ line[1][1] # "id"

\* JSON.parse(line) as Node
JsonParse(line) ==
    MkNode(line[1][2], line[2][2], line[3][2], line[4][2],
           Len(line) >= 5,
           IF Len(line) >= 5 THEN line[5][2] ELSE {})

\* nodes.map((n) => JSON.stringify(n)).join("\n") + "\n", as lines: no node
\* gives "\n", one blank line
FileContent(ns) ==
    IF Len(ns) = 0 THEN <<BlankLine>>
    ELSE [i \in 1..Len(ns) |-> JsonStringify(ns[i])]

\* The nodes a reader of the log finds on its non-blank lines
LogNodes(lg) == {JsonParse(lg[i]) : i \in {j \in 1..Len(lg) : ~IsBlank(lg[j])}}

\* deep equality as vitest's toEqual: undefined properties are ignored
NodeEq(a, b) ==
    /\ a.id = b.id /\ a.timestamp = b.timestamp
    /\ a.raw_text = b.raw_text /\ a.tags = b.tags
    /\ a.hasMetadata = b.hasMetadata
    /\ StringifyMeta(a.metadata) = StringifyMeta(b.metadata)

----------------------------------------------------------------------------
(* Map<string, Node>: a sequence of entries, in insertion order *)

Entry(k, n) == [key |-> k, node |-> n]

MapKeys(m) == {m[i].key : i \in 1..Len(m)}
MapHas(m, k) == k \in MapKeys(m)
MapIndex(m, k) == CHOOSE i \in 1..Len(m) : m[i].key = k
MapGet(m, k) == m[MapIndex(m, k)].node

\* Map.prototype.set: an existing key keeps its place
MapSet(m, k, n) ==
    IF MapHas(m, k)
    THEN [m EXCEPT ![MapIndex(m, k)] = Entry(k, n)]
    ELSE Append(m, Entry(k, n))

\* Map.prototype.delete
MapDelete(m, k) == SelectSeq(m, LAMBDA e : e.key # k)

\* Array.from(this.nodes.values())
MapValues(m) == [i \in 1..Len(m) |-> m[i].node]

\* NodeStorage.list
List == MapValues(nodes)

\* NodeStorage.count
Count == Len(nodes)

----------------------------------------------------------------------------
(* Calls of the store's async methods *)

Slots == 1..MaxInFlight

Call(op, pc, id, opts, updates, node) ==
    [op |-> op, pc |-> pc, id |-> id, opts |-> opts, updates |-> updates,
     node |-> node,
     content |-> <<>>,        \* the text handed to fs.writeFile / appendFile
     tagError |-> "none",     \* the TagError code the pipeline failed with
     ioError |-> FALSE,       \* the awaited file operation rejected
     outcome |-> "none",      \* "ok" or the name of the error raised
     ret |-> NoNode,          \* the node returned
     first |-> ~inst.used]    \* history: the first call on this instance

NoOptions == MkOptions("", FALSE, <<>>, FALSE, {})

IdleCall ==
    [op |-> "none", pc |-> "idle", id |-> NoId, opts |-> NoOptions,
     updates |-> NoPartial, node |-> NoNode, content |-> <<>>,
     tagError |-> "none", ioError |-> FALSE, outcome |-> "none",
     ret |-> NoNode, first |-> FALSE]

InFlight(c) == calls[c].pc \notin {"idle", "done"}
InFlightSet == {c \in Slots : InFlight(c)}
Quiescent == InFlightSet = {}

\* The slot a new call takes
FreeSlot == CHOOSE c \in Slots : ~InFlight(c) /\ \A d \in 1..(c - 1) : InFlight(d)

\* How callers use the instance: how many calls may be in flight at once,
\* and how many calls a run starts
Serial == [inFlight |-> 1, ops |-> MaxOps]
SerialLong == [inFlight |-> 1, ops |-> MaxLongOps]
Overlapping == [inFlight |-> MaxInFlight, ops |-> MaxConcOps]

CanStart(limit) ==
    Cardinality(InFlightSet) < limit.inFlight /\ opCount < limit.ops

\* used: a call other than initialize was started on this instance
\* loadedFirst: the first such call was a load, and it succeeded
\* raced: a call was started while another was in flight
\* damaged: a rejected writeFile left the log empty
\* rekeyed: an update was given a partial whose id is not the id it updates
NewInstance ==
    [used |-> FALSE, loadedFirst |-> FALSE, raced |-> FALSE,
     damaged |-> FALSE, rekeyed |-> FALSE]

Begin(call) ==
    /\ calls' = [calls EXCEPT ![FreeSlot] = call]
    /\ opCount' = opCount + 1
    /\ inst' = [inst EXCEPT !.used = (@ \/ call.op # "initialize"),
                            !.raced = (@ \/ ~Quiescent),
                            !.rekeyed = (@ \/ (/\ call.op = "update"
                                               /\ call.pc # "done"
                                               /\ "id" \in call.updates.has
                                               /\ call.updates.id # call.id))]

\* the call returns or throws
Finish(c, outcome, ret) ==
    [calls[c] EXCEPT !.pc = "done", !.outcome = outcome, !.ret = ret,
                     !.content = <<>>, !.node = NoNode]

----------------------------------------------------------------------------
(* TagService.generateTags *)

\* What TagGenerator.generateTags does: returns tags or throws a TagError
GenOutcomes ==
    {[ok |-> TRUE, tags |-> t, code |-> "none"] : t \in GenTagLists}
    \cup {[ok |-> FALSE, tags |-> <<>>, code |-> e] : e \in TagErrorCodes}

\* mutant: no try/catch around the pipeline
TagServiceGenerateTags_NoCatch(g) == [threw |-> ~g.ok, tags |-> g.tags]

\* try { return result.tags.map(...) } catch { return [] }: what the caller
\* gets, a list of tag texts or (threw) the pipeline's error
TagServiceGenerateTags(g) ==
    IF g.ok THEN [threw |-> FALSE, tags |-> g.tags]
    ELSE [threw |-> FALSE, tags |-> <<>>]

----------------------------------------------------------------------------
(* NodeStorage.create *)

\* the node literal: tags: options.tags || []
NewNode(id, ts, o) ==
    MkNode(id, ts, o.raw_text, IF o.hasTags THEN o.tags ELSE <<>>,
           o.hasMetadata, o.metadata)

\* (!options.tags || options.tags.length === 0) && !this.isTestMode
CreateNeedsTags(o, testMode) == (~o.hasTags \/ Len(o.tags) = 0) /\ ~testMode

\* mutant: the map is updated whether or not the append succeeded
MapAfterCreate_SetRegardless(m, node, ioError) == MapSet(m, node.id, node)

\* the in-memory map after the awaited append settled
MapAfterCreate(m, node, ioError) ==
    IF ioError THEN m ELSE MapSet(m, node.id, node)

StartCreate(limit, o, ts) ==
    /\ CanStart(limit)
    /\ nextId <= MaxIds
    /\ Begin(Call("create", "validate", nextId, o, NoPartial,
                  NewNode(nextId, ts, o)))
    /\ nextId' = nextId + 1
    /\ UNCHANGED <<fileExists, log, nodes, isTestMode, createdLog, created,
                   deleted, outsideStore>>

CreateValidated(c) ==
    /\ calls[c].op = "create" /\ calls[c].pc = "validate"
    /\ calls' = [calls EXCEPT ![c].pc =
                    IF CreateNeedsTags(calls[c].opts, isTestMode)
                    THEN "tags" ELSE "io"]
    /\ UNCHANGED <<fileExists, log, nodes, isTestMode, nextId, opCount,
                   createdLog, created, deleted, inst, outsideStore>>

CreateTagged(c, g) ==
    /\ calls[c].op = "create" /\ calls[c].pc = "tags"
    /\ calls' = IF TagServiceGenerateTags(g).threw
                THEN [calls EXCEPT ![c] =
                        [Finish(c, "StorageError", NoNode)
                           EXCEPT !.tagError = g.code]]
                ELSE [calls EXCEPT ![c].pc = "io",
                                   ![c].tagError = g.code,
                                   ![c].node.tags =
                                       TagServiceGenerateTags(g).tags]
    /\ UNCHANGED <<fileExists, log, nodes, isTestMode, nextId, opCount,
                   createdLog, created, deleted, inst, outsideStore>>

\* fs.appendFile(dataPath, JSON.stringify(node) + "\n") settles
CreateAppend(c, ok) ==
    /\ calls[c].op = "create" /\ calls[c].pc = "io"
    /\ IF ok
       THEN /\ log' = Append(log, JsonStringify(calls[c].node))
            /\ fileExists' = TRUE
       ELSE UNCHANGED <<log, fileExists>>
    /\ calls' = [calls EXCEPT ![c].pc = "resume", ![c].ioError = ~ok]
    /\ UNCHANGED <<nodes, isTestMode, nextId, opCount, createdLog, created,
                   deleted, inst, outsideStore>>

CreateResume(c) ==
    /\ calls[c].op = "create" /\ calls[c].pc = "resume"
    /\ nodes' = MapAfterCreate(nodes, calls[c].node, calls[c].ioError)
    /\ calls' = [calls EXCEPT ![c] =
                    IF calls[c].ioError
                    THEN Finish(c, "StorageError", NoNode)
                    ELSE Finish(c, "ok", calls[c].node)]
    /\ created' = IF calls[c].ioError THEN created
                  ELSE created \cup {calls[c].node}
    /\ UNCHANGED <<fileExists, log, isTestMode, nextId, opCount, createdLog,
                   deleted, inst, outsideStore>>

----------------------------------------------------------------------------
(* validatePath fails: every method rethrows the PathValidationError *)

PathInvalid(c) ==
    /\ calls[c].pc = "validate"
    /\ calls' = [calls EXCEPT ![c] = Finish(c, "PathValidationError", NoNode)]
    /\ UNCHANGED <<fileExists, log, nodes, isTestMode, nextId, opCount,
                   createdLog, created, deleted, inst, outsideStore>>

----------------------------------------------------------------------------
(* fs.writeFile(dataPath, content): the file is opened with flag "w", which *)
(* truncates it, and then written; a rejected write leaves the old content  *)
(* (the open failed) or an empty file (the write failed)                    *)

WriteResults == {"ok", "failed", "truncated"}

FsWriteFile(lg, content, res) ==
    CASE res = "ok" -> content
      [] res = "truncated" -> <<>>
      [] OTHER -> lg

----------------------------------------------------------------------------
(* NodeStorage.update *)

\* { ...node, ...updates }
Merge(node, u) ==
    MkNode(IF "id" \in u.has THEN u.id ELSE node.id,
           node.timestamp,
           IF "raw_text" \in u.has THEN u.raw_text ELSE node.raw_text,
           IF "tags" \in u.has THEN u.tags ELSE node.tags,
           node.hasMetadata, node.metadata)

\* updates.raw_text && !this.isTestMode: the empty string is falsy
UpdateNeedsTags(u, testMode) ==
    "raw_text" \in u.has /\ u.raw_text # "" /\ ~testMode

\* nodes.findIndex((n) => n.id === id), 0 for -1
FindIndex(ns, id) ==
    IF \E i \in 1..Len(ns) : ns[i].id = id
    THEN CHOOSE i \in 1..Len(ns) :
            ns[i].id = id /\ \A j \in 1..(i - 1) : ns[j].id # id
    ELSE 0

\* mutant: the array is written as it was read, without the updated node
UpdateRewrite_NotReplaced(ns, id, updatedNode) == ns

\* the array written by update: the map's values with the one entry replaced
UpdateRewrite(ns, id, updatedNode) ==
    IF FindIndex(ns, id) # 0
    THEN [ns EXCEPT ![FindIndex(ns, id)] = updatedNode]
    ELSE ns

\* mutant: the map is updated whether or not the rewrite succeeded
MapAfterUpdate_SetRegardless(m, id, updatedNode, ioError) ==
    MapSet(m, id, updatedNode)

\* the in-memory map after the awaited rewrite settled
MapAfterUpdate(m, id, updatedNode, ioError) ==
    IF ioError THEN m ELSE MapSet(m, id, updatedNode)

\* const node = await this.get(id): a miss throws before anything is touched
StartUpdate(limit, id, u) ==
    /\ CanStart(limit)
    /\ IF MapHas(nodes, id)
       THEN Begin(Call("update", "validate", id, NoOptions, u,
                       Merge(MapGet(nodes, id), u)))
       ELSE Begin([Call("update", "done", id, NoOptions, u, NoNode)
                     EXCEPT !.outcome = "NodeNotFoundError"])
    /\ UNCHANGED <<fileExists, log, nodes, isTestMode, nextId, createdLog,
                   created, deleted, outsideStore>>

\* the rewrite starts: the array is built from the map as it is now
UpdateSnapshot(c, node) ==
    [calls EXCEPT ![c].pc = "io", ![c].node = node,
                  ![c].content =
                      FileContent(UpdateRewrite(MapValues(nodes),
                                                calls[c].id, node))]

UpdateValidated(c) ==
    /\ calls[c].op = "update" /\ calls[c].pc = "validate"
    /\ calls' = IF UpdateNeedsTags(calls[c].updates, isTestMode)
                THEN [calls EXCEPT ![c].pc = "tags"]
                ELSE UpdateSnapshot(c, calls[c].node)
    /\ UNCHANGED <<fileExists, log, nodes, isTestMode, nextId, opCount,
                   createdLog, created, deleted, inst, outsideStore>>

UpdateTagged(c, g) ==
    /\ calls[c].op = "update" /\ calls[c].pc = "tags"
    /\ calls' = IF TagServiceGenerateTags(g).threw
                THEN [calls EXCEPT ![c] =
                        [Finish(c, "StorageError", NoNode)
                           EXCEPT !.tagError = g.code]]
                ELSE [UpdateSnapshot(c, [calls[c].node EXCEPT !.tags =
                                           TagServiceGenerateTags(g).tags])
                        EXCEPT ![c].tagError = g.code]
    /\ UNCHANGED <<fileExists, log, nodes, isTestMode, nextId, opCount,
                   createdLog, created, deleted, inst, outsideStore>>

\* fs.writeFile settles
UpdateWrite(c, res) ==
    /\ calls[c].op = "update" /\ calls[c].pc = "io"
    /\ log' = FsWriteFile(log, calls[c].content, res)
    /\ fileExists' = (fileExists \/ res # "failed")
    /\ createdLog' = (createdLog /\ res = "failed")
    /\ calls' = [calls EXCEPT ![c].pc = "resume", ![c].ioError = (res # "ok")]
    /\ inst' = [inst EXCEPT !.damaged = (@ \/ res = "truncated")]
    /\ UNCHANGED <<nodes, isTestMode, nextId, opCount, created, deleted,
                   outsideStore>>

UpdateResume(c) ==
    /\ calls[c].op = "update" /\ calls[c].pc = "resume"
    /\ nodes' = MapAfterUpdate(nodes, calls[c].id, calls[c].node,
                               calls[c].ioError)
    /\ calls' = [calls EXCEPT ![c] =
                    IF calls[c].ioError
                    THEN Finish(c, "StorageError", NoNode)
                    ELSE Finish(c, "ok", calls[c].node)]
    /\ UNCHANGED <<fileExists, log, isTestMode, nextId, opCount, createdLog,
                   created, deleted, inst, outsideStore>>

----------------------------------------------------------------------------
(* NodeStorage.delete *)

\* Array.from(this.nodes.values()).filter((n) => n.id !== id)
DeleteRewrite(ns, id) == SelectSeq(ns, LAMBDA n : n.id # id)

\* the in-memory map after the awaited rewrite settled
MapAfterDelete(m, id, ioError) == IF ioError THEN m ELSE MapDelete(m, id)

\* mutant: no this.nodes.has(id) check
StartDelete_NoHasCheck(limit, id) ==
    /\ CanStart(limit)
    /\ Begin(Call("delete", "validate", id, NoOptions, NoPartial, NoNode))
    /\ UNCHANGED <<fileExists, log, nodes, isTestMode, nextId, createdLog,
                   created, deleted, outsideStore>>

StartDelete(limit, id) ==
    /\ CanStart(limit)
    /\ IF MapHas(nodes, id)
       THEN Begin(Call("delete", "validate", id, NoOptions, NoPartial, NoNode))
       ELSE Begin([Call("delete", "done", id, NoOptions, NoPartial, NoNode)
                     EXCEPT !.outcome = "NodeNotFoundError"])
    /\ UNCHANGED <<fileExists, log, nodes, isTestMode, nextId, createdLog,
                   created, deleted, outsideStore>>

DeleteValidated(c) ==
    /\ calls[c].op = "delete" /\ calls[c].pc = "validate"
    /\ calls' = [calls EXCEPT ![c].pc = "io",
                    ![c].content =
                        FileContent(DeleteRewrite(MapValues(nodes), calls[c].id))]
    /\ UNCHANGED <<fileExists, log, nodes, isTestMode, nextId, opCount,
                   createdLog, created, deleted, inst, outsideStore>>

DeleteWrite(c, res) ==
    /\ calls[c].op = "delete" /\ calls[c].pc = "io"
    /\ log' = FsWriteFile(log, calls[c].content, res)
    /\ fileExists' = (fileExists \/ res # "failed")
    /\ createdLog' = (createdLog /\ res = "failed")
    /\ calls' = [calls EXCEPT ![c].pc = "resume", ![c].ioError = (res # "ok")]
    /\ inst' = [inst EXCEPT !.damaged = (@ \/ res = "truncated")]
    /\ UNCHANGED <<nodes, isTestMode, nextId, opCount, created, deleted,
                   outsideStore>>

DeleteResume(c) ==
    /\ calls[c].op = "delete" /\ calls[c].pc = "resume"
    /\ nodes' = MapAfterDelete(nodes, calls[c].id, calls[c].ioError)
    /\ calls' = [calls EXCEPT ![c] =
                    IF calls[c].ioError
                    THEN Finish(c, "StorageError", NoNode)
                    ELSE Finish(c, "ok", NoNode)]
    /\ deleted' = IF calls[c].ioError THEN deleted
                  ELSE deleted \cup {calls[c].id}
    /\ UNCHANGED <<fileExists, log, isTestMode, nextId, opCount, createdLog,
                   created, inst, outsideStore>>

----------------------------------------------------------------------------
(* NodeStorage.get *)

Get(limit, id) ==
    /\ CanStart(limit)
    /\ IF MapHas(nodes, id)
       THEN Begin([Call("get", "done", id, NoOptions, NoPartial, NoNode)
                     EXCEPT !.outcome = "ok", !.ret = MapGet(nodes, id)])
       ELSE Begin([Call("get", "done", id, NoOptions, NoPartial, NoNode)
                     EXCEPT !.outcome = "NodeNotFoundError"])
    /\ UNCHANGED <<fileExists, log, nodes, isTestMode, nextId, createdLog,
                   created, deleted, outsideStore>>

----------------------------------------------------------------------------
(* NodeStorage.initialize and NodeStorage.load *)

StartInitialize(limit) ==
    /\ CanStart(limit)
    /\ Begin(Call("initialize", "validate", NoId, NoOptions, NoPartial, NoNode))
    /\ UNCHANGED <<fileExists, log, nodes, isTestMode, nextId, createdLog,
                   created, deleted, outsideStore>>

\* fs.access(dataPath) tells whether the file is there
InitializeValidated(c) ==
    /\ calls[c].op = "initialize" /\ calls[c].pc = "validate"
    /\ calls' = [calls EXCEPT ![c] =
                    IF fileExists THEN Finish(c, "ok", NoNode)
                    ELSE [calls[c] EXCEPT !.pc = "io"]]
    /\ UNCHANGED <<fileExists, log, nodes, isTestMode, nextId, opCount,
                   createdLog, created, deleted, inst, outsideStore>>

\* fs.writeFile(dataPath, "") settles
InitializeWrite(c, ok) ==
    /\ calls[c].op = "initialize" /\ calls[c].pc = "io"
    /\ IF ok
       THEN /\ log' = <<>>
            /\ fileExists' = TRUE
            /\ createdLog' = (createdLog /\ log = <<>>)
       ELSE UNCHANGED <<log, fileExists, createdLog>>
    /\ calls' = [calls EXCEPT ![c] =
                    IF ok THEN Finish(c, "ok", NoNode)
                    ELSE Finish(c, "StorageError", NoNode)]
    /\ UNCHANGED <<nodes, isTestMode, nextId, opCount, created, deleted,
                   inst, outsideStore>>

\* mutant: the loop ends after the first line
LoadLines_FirstLineOnly(m, lg) ==
    IF Len(lg) = 0 \/ IsBlank(Head(lg)) THEN m
    ELSE MapSet(m, JsonParse(Head(lg)).id, JsonParse(Head(lg)))

\* for await (const line of rl) { if (line.trim()) nodes.set(node.id, node) }
RECURSIVE LoadLines(_, _)
LoadLines(m, lg) ==
    IF Len(lg) = 0 THEN m
    ELSE LoadLines(IF IsBlank(Head(lg)) THEN m
                   ELSE MapSet(m, JsonParse(Head(lg)).id, JsonParse(Head(lg))),
                   Tail(lg))

\* The lines the loop of load consumes: JSON.parse throws on the first
\* malformed line, inside the try, and no later line is read
ReadLines(lg) ==
    IF \E i \in 1..Len(lg) : IsMalformed(lg[i])
    THEN SubSeq(lg, 1, (CHOOSE i \in 1..Len(lg) :
                          /\ IsMalformed(lg[i])
                          /\ \A j \in 1..(i - 1) : ~IsMalformed(lg[j])) - 1)
    ELSE lg

\* catch (error) { ... throw new StorageError("Failed to load nodes", error) }
LoadOutcome(lg) == IF ReadLines(lg) = lg THEN "ok" ELSE "StorageError"

StartLoad(limit) ==
    /\ CanStart(limit)
    /\ Begin(Call("load", "validate", NoId, NoOptions, NoPartial, NoNode))
    /\ UNCHANGED <<fileExists, log, nodes, isTestMode, nextId, createdLog,
                   created, deleted, outsideStore>>

LoadValidated(c) ==
    /\ calls[c].op = "load" /\ calls[c].pc = "validate"
    /\ calls' = [calls EXCEPT ![c].pc = "io"]
    /\ UNCHANGED <<fileExists, log, nodes, isTestMode, nextId, opCount,
                   createdLog, created, deleted, inst, outsideStore>>

\* the read stream delivers the file, or fails on a file that is not there
LoadRead(c) ==
    /\ calls[c].op = "load" /\ calls[c].pc = "io"
    /\ IF fileExists
       THEN /\ nodes' = LoadLines(nodes, ReadLines(log))
            /\ calls' = [calls EXCEPT ![c] =
                            Finish(c, LoadOutcome(log), NoNode)]
            /\ inst' = [inst EXCEPT !.loadedFirst =
                            (@ \/ (calls[c].first /\ LoadOutcome(log) = "ok"))]
       ELSE /\ nodes' = nodes
            /\ calls' = [calls EXCEPT ![c] = Finish(c, "StorageError", NoNode)]
            /\ inst' = inst
    /\ UNCHANGED <<fileExists, log, isTestMode, nextId, opCount, createdLog,
                   created, deleted, outsideStore>>

----------------------------------------------------------------------------
(* nodes.jsonl is a plain text file: an editor or another program writes it *)

MaxLogLines == 3

\* The lines such a writer leaves: nodes as the store writes them, blank
\* lines, and text that is not JSON
ForeignLines ==
    {BlankLine, MalformedLine}
    \cup {JsonStringify(MkNode(i, 1, "a", <<>>, FALSE, {})) : i \in Ids}

ForeignLogs ==
    UNION {[1..n -> ForeignLines] : n \in 1..MaxLogLines}

LogWrittenOutside(lg) ==
    /\ Quiescent
    /\ ~inst.used
    /\ log' = lg
    /\ fileExists' = TRUE
    /\ UNCHANGED <<nodes, isTestMode, calls, nextId, opCount, createdLog,
                   created, deleted, inst, outsideStore>>

----------------------------------------------------------------------------
(* new NodeStorage(configManager, aiService?): a new process on the same log *)

Construct(testMode) ==
    /\ Quiescent
    /\ opCount > 0
    /\ nodes' = <<>>
    /\ isTestMode' = testMode
    /\ calls' = [c \in Slots |-> IdleCall]
    /\ deleted' = {}
    /\ inst' = NewInstance
    /\ UNCHANGED <<fileExists, log, nextId, opCount, createdLog, created,
                   outsideStore>>

----------------------------------------------------------------------------
(* retry(fn, options): the Retry Executor *)

RetrySlots == 1..MaxRetryCalls

\* An error object: its message as words, whether it is an Error instance,
\* and the retry call and invocation of fn that threw it (its identity)
MkError(isError, msg, call, n) ==
    [isError |-> isError, msg |-> msg, call |-> call, n |-> n]

\* let lastError: unknown, not yet assigned
UndefinedError == MkError(FALSE, <<>>, 0, 0)

\* What fn throws: an Error with a message, or a value that is no Error
Thrown ==
    {[isError |-> TRUE, msg |-> <<"network", "error">>],
     [isError |-> TRUE, msg |-> <<"invalid", "input">>],
     [isError |-> FALSE, msg |-> <<"timeout">>]}

\* error.message.includes(word)
Includes(msg, word) == \E i \in 1..Len(msg) : msg[i] = word

\* defaultRetryOptions.isRetryable
DefaultIsRetryable(e) ==
    /\ e.isError
    /\ \E w \in {"network", "timeout", "ECONNRESET", "ETIMEDOUT",
                 "500", "502", "503", "504"} : Includes(e.msg, w)

\* interface RetryOptions; isRetryable names the predicate ("undefined" for
\* a policy without one)
MkRetryOptions(maxRetries, initialDelay, maxDelay, factor, isRetryable) ==
    [maxRetries |-> maxRetries, initialDelay |-> initialDelay,
     maxDelay |-> maxDelay, factor |-> factor, isRetryable |-> isRetryable]

DefaultRetryOptions == MkRetryOptions(3, 1000, 10000, 2, "default")

\* { ...defaultRetryOptions, ...options }, for the options callers pass
RetryConfigs ==
    {DefaultRetryOptions,
     MkRetryOptions(2, 100, 300, 2, "always"),
     MkRetryOptions(3, 1000, 2000, 3, "undefined"),
     MkRetryOptions(1, 3000, 2000, 2, "default"),
     MkRetryOptions(0, 1000, 10000, 2, "default")}

\* config.isRetryable && !config.isRetryable(error)
NotRetryable(config, e) ==
    CASE config.isRetryable = "undefined" -> FALSE
      [] config.isRetryable = "always" -> FALSE
      [] OTHER -> ~DefaultIsRetryable(e)

\* mutant: only the attempts left decide, not the error
GivesUp_WhenExhausted(config, attempt, e) == attempt = config.maxRetries

\* attempt === config.maxRetries || (config.isRetryable && !isRetryable(error))
GivesUp(config, attempt, e) ==
    attempt = config.maxRetries \/ NotRetryable(config, e)

\* mutant: a new error is raised in place of the one caught
GiveUpError_Wrapped(error, lastError) ==
    MkError(TRUE, <<"retries", "exhausted">>, error.call, error.n)

\* throw error: what retry raises when it gives up
GiveUpError(error, lastError) == error

\* Math.min(delay * config.factor, config.maxDelay)
NextDelay(config, delay) ==
    IF delay * config.factor < config.maxDelay
    THEN delay * config.factor ELSE config.maxDelay

IdleRetry ==
    [pc |-> "idle", config |-> DefaultRetryOptions, attempt |-> 0,
     delay |-> 0, lastError |-> UndefinedError,
     invoked |-> 0,                 \* history: invocations of fn
     fnError |-> UndefinedError,    \* history: what the last invocation threw
     waits |-> <<>>,                \* history: the delays waited
     result |-> "none", thrown |-> UndefinedError]

\* retry is entered: config and delay are set and the loop invokes fn, or
\* (maxRetries < 0) the loop is skipped and lastError is thrown at once
RetryEntered(config) ==
    IF 0 <= config.maxRetries
    THEN [IdleRetry EXCEPT !.pc = "attempt", !.config = config,
                           !.delay = config.initialDelay, !.invoked = 1]
    ELSE [IdleRetry EXCEPT !.pc = "done", !.config = config,
                           !.result = "threw"]

\* return await fn(), fn having resolved
RetryReturned(r) == [r EXCEPT !.pc = "done", !.result = "ok"]

\* the catch block, fn having rejected with e: rethrow, or start the timer
RetryCaught(r, e) ==
    IF GivesUp(r.config, r.attempt, e)
    THEN [r EXCEPT !.pc = "done", !.lastError = e, !.fnError = e,
                   !.result = "threw",
                   !.thrown = GiveUpError(e, r.lastError)]
    ELSE [r EXCEPT !.pc = "wait", !.lastError = e, !.fnError = e,
                   !.waits = Append(@, r.delay)]

\* mutant: the loop never counts its attempts
RetryWaited_NoCount(r) ==
    [r EXCEPT !.pc = "attempt", !.delay = NextDelay(r.config, r.delay),
              !.invoked = @ + 1]

\* after the timer: the delay grows, attempt++ and the loop test
RetryWaited(r) ==
    IF r.attempt + 1 <= r.config.maxRetries
    THEN [r EXCEPT !.pc = "attempt", !.attempt = @ + 1,
                   !.delay = NextDelay(r.config, r.delay),
                   !.invoked = @ + 1]
    ELSE [r EXCEPT !.pc = "done", !.attempt = @ + 1,
                   !.delay = NextDelay(r.config, r.delay),
                   !.result = "threw", !.thrown = r.lastError]

\* retry is called
RetryStart(k, config) ==
    /\ rcalls[k].pc = "idle"
    /\ rcalls' = [rcalls EXCEPT ![k] = RetryEntered(config)]
    /\ UNCHANGED outsideRetry

\* fn() resolves: return await fn()
FnResolves(k) ==
    /\ rcalls[k].pc = "attempt"
    /\ rcalls' = [rcalls EXCEPT ![k] = RetryReturned(rcalls[k])]
    /\ UNCHANGED outsideRetry

\* fn() rejects: the catch block
FnRejects(k, t) ==
    /\ rcalls[k].pc = "attempt"
    /\ LET e == MkError(t.isError, t.msg, k, rcalls[k].invoked)
       IN rcalls' = [rcalls EXCEPT ![k] = RetryCaught(rcalls[k], e)]
    /\ UNCHANGED outsideRetry

\* mutant: delay is a variable of the module, shared by every call
TimerFires_SharedDelay(k) ==
    /\ rcalls[k].pc = "wait"
    /\ LET d == NextDelay(rcalls[k].config, rcalls[k].delay)
       IN rcalls' = [j \in RetrySlots |->
            IF j = k THEN RetryWaited(rcalls[k])
            ELSE IF rcalls[j].pc \in {"attempt", "wait"}
                 THEN [rcalls[j] EXCEPT !.delay = d]
                 ELSE rcalls[j]]
    /\ UNCHANGED outsideRetry

\* the timer fires: the delay grows and the loop invokes fn again
TimerFires(k) ==
    /\ rcalls[k].pc = "wait"
    /\ rcalls' = [rcalls EXCEPT ![k] = RetryWaited(rcalls[k])]
    /\ UNCHANGED outsideRetry

RetryIdle == rcalls = [k \in RetrySlots |-> IdleRetry]

NextRetry ==
    \/ \E k \in RetrySlots, config \in RetryConfigs : RetryStart(k, config)
    \/ \E k \in RetrySlots : FnResolves(k)
    \/ \E k \in RetrySlots, t \in Thrown : FnRejects(k, t)
    \/ \E k \in RetrySlots : TimerFires(k)

----------------------------------------------------------------------------
(* OllamaModel: the gateway to the Ollama server.  A call of initialize or *)
(* generate in slot g runs its retry() invocation in rcalls[g]; each       *)
(* invocation of fn sends one request to the server, so rcalls[g].invoked  *)
(* counts the requests of the call.                                        *)

\* a slot of the gateway is also a slot of retry
GatewaySlots == 1..MaxGatewayCalls

\* A model name "base:tag" as <<base, tag>>, "base" as <<base>>
Llama2 == <<"llama2">>
Llama2Latest == <<"llama2", "latest">>
Mistral == <<"mistral">>
Nonexistent == <<"nonexistent">>

\* m.name.split(":")[0]
BaseName(name) == <<name[1]>>

\* What the client rejects with: an Error of the transport or the server
BackendErrors == {t \in Thrown : t.isError}

\* What client.list() can return: the server with and without llama2
Backends == {{Llama2Latest, Mistral}, {Mistral}}

\* An optional number or object: absent, or present with a value
None == <<>>
Some(v) == <<v>>

\* OllamaConfig.retry as callers write it, its numbers optional
MkRetryField(maxAttempts, maxRetries, initialDelay, maxDelay, factor, is) ==
    [maxAttempts |-> maxAttempts, maxRetries |-> maxRetries,
     initialDelay |-> initialDelay, maxDelay |-> maxDelay,
     factor |-> factor, isRetryable |-> is]

\* interface OllamaConfig: model, temperature (in tenths) and retry
MkOllamaConfig(model, temperature, retry) ==
    [model |-> model, temperature |-> temperature, retry |-> retry]

DefaultOllamaConfig == MkOllamaConfig(Llama2, Some(7), None)

\* retry: { maxRetries: 1, initialDelay: 100, maxDelay: 200, factor: 2 }
RetryOnceField ==
    MkRetryField(None, Some(1), Some(100), Some(200), Some(2), Undefined)

\* the same with the maxAttempts the schema asks for, retrying every error
RetryAlwaysField ==
    MkRetryField(Some(2), Some(1), Some(100), Some(200), Some(2), "always")

\* The configurations initialize is called with
OllamaConfigs ==
    {DefaultOllamaConfig,
     MkOllamaConfig(Llama2, Some(15), None),
     MkOllamaConfig(Nonexistent, Some(-1), None),
     MkOllamaConfig(Nonexistent, Some(7), None),
     MkOllamaConfig(Llama2Latest, None, None),
     MkOllamaConfig(Llama2, Some(7), Some(RetryOnceField)),
     MkOllamaConfig(Llama2, Some(7), Some(RetryAlwaysField))}

\* The configurations an instance is constructed with
ConstructorConfigs ==
    {DefaultOllamaConfig, MkOllamaConfig(Llama2, Some(7), Some(RetryOnceField))}

\* z.number().positive()
ZPositive(x) == x # None /\ x[1] > 0

\* temperature: z.number().min(0).max(1).optional()
TemperatureOk(t) == t = None \/ (0 <= t[1] /\ t[1] <= 10)

\* retry: z.object({maxAttempts, initialDelay, maxDelay, factor}).optional()
RetryFieldOk(r) ==
    \/ r = None
    \/ /\ ZPositive(r[1].maxAttempts)
       /\ ZPositive(r[1].initialDelay)
       /\ ZPositive(r[1].maxDelay)
       /\ ZPositive(r[1].factor)

\* mutant: the schema accepts every temperature
SchemaOk_AnyTemperature(config) == RetryFieldOk(config.retry)

\* ollamaConfigSchema.parse(config) does not throw
SchemaOk(config) ==
    TemperatureOk(config.temperature) /\ RetryFieldOk(config.retry)

\* { ...defaultRetryOptions, ...config.retry }
MergeRetryOptions(r) ==
    IF r = None THEN DefaultRetryOptions
    ELSE LET d == DefaultRetryOptions
             Pick(v, dflt) == IF v = None THEN dflt ELSE v[1]
         IN MkRetryOptions(Pick(r[1].maxRetries, d.maxRetries),
                           Pick(r[1].initialDelay, d.initialDelay),
                           Pick(r[1].maxDelay, d.maxDelay),
                           Pick(r[1].factor, d.factor),
                           IF r[1].isRetryable = Undefined
                           THEN d.isRetryable ELSE r[1].isRetryable)

\* class ModelError extends Error: message, code and cause
MkModelError(msg, code, cause, call, n) ==
    [isError |-> TRUE, msg |-> msg, call |-> call, n |-> n,
     code |-> code, cause |-> cause]

IsModelError(e) == "code" \in DOMAIN e

\* the ZodError ollamaConfigSchema.parse throws in call g
ZodError(g) == MkError(TRUE, <<"ZodError">>, g, 0)

RECURSIVE Words(_)
\* models.models.map((m) => m.name).join(", "), as words
Words(names) ==
    IF names = {} THEN <<>>
    ELSE LET m == CHOOSE x \in names : \A y \in names : Len(x) >= Len(y)
         IN m \o Words(names \ {m})

\* the ModelError of line 156, thrown by invocation n of fn in call g
ModelNotFound(config, models, g, n) ==
    MkModelError(<<"Model">> \o config.model
                   \o <<"not", "found.", "Available", "models:">>
                   \o Words(models),
                 "MODEL_NOT_FOUND", UndefinedError, g, n)

\* models.models.some((m) => m.name.split(":")[0] === config.model)
ModelExists(models, config) ==
    \E m \in models : BaseName(m) = config.model

\* constructor(config)
NewOllamaModel(config) ==
    [ready |-> FALSE, config |-> config,
     retryConfig |-> MergeRetryOptions(config.retry),
     initOk |-> FALSE,      \* history: an initialize call has succeeded
     initFailed |-> FALSE,  \* history: an initialize call has failed
     verified |-> {}]       \* history: the models a successful initialize found

\* mutant: ready is set as soon as the configuration is accepted
InitializeEntered_ReadyEarly(o, config) ==
    [o EXCEPT !.ready = TRUE, !.config = config,
              !.retryConfig = MergeRetryOptions(config.retry)]

\* initialize, lines 134-143: config, retryConfig and client are replaced
InitializeEntered(o, config) ==
    [o EXCEPT !.config = config,
              !.retryConfig = MergeRetryOptions(config.retry)]

\* mutant: a failed initialize puts the instance back to not ready
InitializeFailed_Resets(o) == [o EXCEPT !.ready = FALSE]

\* initialize, lines 164-169: the catch block leaves the fields alone
InitializeFailed(o) == o

\* initialize, line 163: this.ready = true
InitializeSucceeded(o) == [o EXCEPT !.ready = TRUE, !.initOk = TRUE]

\* isReady()
IsReady == ollama.ready

\* A call of initialize or generate
IdleGCall ==
    [op |-> "none", pc |-> "idle", config |-> DefaultOllamaConfig,
     initOkAtStart |-> FALSE,   \* history: an initialize had succeeded
     readyAtStart |-> FALSE,    \* history: this.ready when the call began
     policy |-> DefaultRetryOptions,  \* history: this.retryConfig it passed
     listed |-> None,           \* history: the models of the last list()
     result |-> "none", error |-> UndefinedError]

GCall(op, pc, config) ==
    [IdleGCall EXCEPT !.op = op, !.pc = pc, !.config = config,
                      !.initOkAtStart = ollama.initOk,
                      !.readyAtStart = ollama.ready]

GCanStart(g) ==
    /\ gcalls[g].pc \in {"idle", "done"}
    /\ gops < MaxGatewayOps

\* new OllamaModel(config): the calls of the old instance are dropped
OllamaConstruct(config) ==
    /\ gops > 0
    /\ \A g \in GatewaySlots : gcalls[g].pc \in {"idle", "done"}
    /\ ollama' = NewOllamaModel(config)
    /\ gcalls' = [g \in GatewaySlots |-> IdleGCall]
    /\ rcalls' = [k \in RetrySlots |-> IdleRetry]
    /\ UNCHANGED <<backend, gops, outsideGateway>>

\* throw new ModelError("Invalid configuration", "INVALID_CONFIG", error)
InvalidConfig(g) ==
    MkModelError(<<"Invalid", "configuration">>, "INVALID_CONFIG",
                 ZodError(g), g, 0)

\* initialize(config) up to its await: the schema, the fields, and retry
\* entered with the first list() request sent
OllamaInitialize(g, config) ==
    /\ GCanStart(g)
    /\ gops' = gops + 1
    /\ IF SchemaOk(config)
       THEN /\ ollama' = InitializeEntered(ollama, config)
            /\ rcalls' = [rcalls EXCEPT ![g] = RetryEntered(ollama'.retryConfig)]
            /\ gcalls' = [gcalls EXCEPT ![g] =
                 [GCall("initialize", "retry", config)
                    EXCEPT !.policy = ollama'.retryConfig]]
       ELSE /\ ollama' = [InitializeFailed(ollama) EXCEPT !.initFailed = TRUE]
            /\ rcalls' = [rcalls EXCEPT ![g] = IdleRetry]
            /\ gcalls' = [gcalls EXCEPT ![g] =
                 [GCall("initialize", "done", config)
                    EXCEPT !.result = "threw", !.error = InvalidConfig(g)]]
    /\ UNCHANGED <<backend, outsideGateway>>

\* client.list() resolves: fn returns, or throws MODEL_NOT_FOUND
ListResolves(g) ==
    /\ gcalls[g].op = "initialize" /\ gcalls[g].pc = "retry"
    /\ rcalls[g].pc = "attempt"
    /\ rcalls' = [rcalls EXCEPT ![g] =
         IF ModelExists(backend, gcalls[g].config)
         THEN RetryReturned(rcalls[g])
         ELSE RetryCaught(rcalls[g],
                          ModelNotFound(gcalls[g].config, backend, g,
                                        rcalls[g].invoked))]
    /\ gcalls' = [gcalls EXCEPT ![g].listed = Some(backend)]
    /\ UNCHANGED <<ollama, backend, gops, outsideGateway>>

\* client.list() rejects: a transport failure
ListRejects(g, t) ==
    /\ gcalls[g].op = "initialize" /\ gcalls[g].pc = "retry"
    /\ rcalls[g].pc = "attempt"
    /\ rcalls' = [rcalls EXCEPT ![g] =
         RetryCaught(rcalls[g], MkError(t.isError, t.msg, g, rcalls[g].invoked))]
    /\ gcalls' = [gcalls EXCEPT ![g].listed = None]
    /\ UNCHANGED <<ollama, backend, gops, outsideGateway>>

\* initialize after await retry(...): this.ready = true, or the catch block
InitializeResume(g) ==
    /\ gcalls[g].op = "initialize" /\ gcalls[g].pc = "retry"
    /\ rcalls[g].pc = "done"
    /\ IF rcalls[g].result = "ok"
       THEN /\ ollama' = [InitializeSucceeded(ollama) EXCEPT !.verified =
                              @ \cup {gcalls[g].config.model}]
            /\ gcalls' = [gcalls EXCEPT ![g].pc = "done", ![g].result = "ok"]
       ELSE /\ ollama' = [InitializeFailed(ollama) EXCEPT !.initFailed = TRUE]
            /\ gcalls' = [gcalls EXCEPT ![g].pc = "done",
                                        ![g].result = "threw",
                                        ![g].error = rcalls[g].thrown]
    /\ UNCHANGED <<rcalls, backend, gops, outsideGateway>>

\* throw new ModelError("Model not initialized", "NOT_INITIALIZED")
NotInitialized(g) ==
    MkModelError(<<"Model", "not", "initialized">>, "NOT_INITIALIZED",
                 UndefinedError, g, 0)

\* mutant: the error of retry is passed on as it is
GenerationFailed_Rethrown(error, g) == error

\* throw new ModelError(`Failed to generate response: ...`,
\*                      "GENERATION_FAILED", error)
GenerationFailed(error, g) ==
    MkModelError(<<"Failed", "to", "generate", "response:">> \o error.msg,
                 "GENERATION_FAILED", error, g, 0)

\* generate(prompt) up to its await: the ready test, and retry entered with
\* the first generate request sent
OllamaGenerate(g) ==
    /\ GCanStart(g)
    /\ gops' = gops + 1
    /\ IF ollama.ready
       THEN /\ rcalls' = [rcalls EXCEPT ![g] = RetryEntered(ollama.retryConfig)]
            /\ gcalls' = [gcalls EXCEPT ![g] =
                 [GCall("generate", "retry", ollama.config)
                    EXCEPT !.policy = ollama.retryConfig]]
       ELSE /\ rcalls' = [rcalls EXCEPT ![g] = IdleRetry]
            /\ gcalls' = [gcalls EXCEPT ![g] =
                 [GCall("generate", "done", ollama.config)
                    EXCEPT !.result = "threw", !.error = NotInitialized(g)]]
    /\ UNCHANGED <<ollama, backend, outsideGateway>>

\* client.generate(...) resolves
GenerateResolves(g) ==
    /\ gcalls[g].op = "generate" /\ gcalls[g].pc = "retry"
    /\ FnResolves(g)

\* client.generate(...) rejects
GenerateRejects(g, t) ==
    /\ gcalls[g].op = "generate" /\ gcalls[g].pc = "retry"
    /\ FnRejects(g, t)

\* the timer of the call's retry fires: the next request is sent
GatewayTimerFires(g) ==
    /\ gcalls[g].pc = "retry"
    /\ TimerFires(g)

\* generate after await retry(...): the response, or the catch block
GenerateResume(g) ==
    /\ gcalls[g].op = "generate" /\ gcalls[g].pc = "retry"
    /\ rcalls[g].pc = "done"
    /\ gcalls' = [gcalls EXCEPT ![g] =
         IF rcalls[g].result = "ok"
         THEN [@ EXCEPT !.pc = "done", !.result = "ok"]
         ELSE [@ EXCEPT !.pc = "done", !.result = "threw",
                        !.error = GenerationFailed(rcalls[g].thrown, g)]]
    /\ UNCHANGED <<ollama, rcalls, backend, gops, outsideGateway>>

\* a model is pulled to or removed from the server
BackendChanges(b) ==
    /\ b # backend
    /\ backend' = b
    /\ UNCHANGED <<ollama, gcalls, gops, rcalls, outsideGateway>>

GatewayInit ==
    /\ ollama = NewOllamaModel(DefaultOllamaConfig)
    /\ backend = {Llama2Latest, Mistral}
    /\ gcalls = [g \in GatewaySlots |-> IdleGCall]
    /\ gops = 0

NextGateway ==
    \/ \E config \in ConstructorConfigs : OllamaConstruct(config)
    \/ \E g \in GatewaySlots, config \in OllamaConfigs :
          OllamaInitialize(g, config)
    \/ \E g \in GatewaySlots : ListResolves(g)
    \/ \E g \in GatewaySlots, t \in BackendErrors : ListRejects(g, t)
    \/ \E g \in GatewaySlots : InitializeResume(g)
    \/ \E g \in GatewaySlots : OllamaGenerate(g)
    \/ \E g \in GatewaySlots : GenerateResolves(g)
    \/ \E g \in GatewaySlots, t \in BackendErrors : GenerateRejects(g, t)
    \/ \E g \in GatewaySlots : GatewayTimerFires(g)
    \/ \E g \in GatewaySlots : GenerateResume(g)
    \/ \E b \in Backends : BackendChanges(b)

----------------------------------------------------------------------------
(* TagGenerator.extractTags: a string is the sequence of its characters.   *)
(* The repository holds two versions of the method; they differ in the     *)
(* separators they split at and in the leading characters they strip.      *)

MaxTagLength == 50      \* tag.length <= 50

\* the characters trim() removes
Whitespace == {" ", "\n", "\t"}

\* split(","), and split(/[,\n]/)
CommaSeparators == {","}
CommaOrNewline == {",", "\n"}

\* /^[#@!$%^&*()_+\-=\[\]{};':"\\|,.<>\/?]+/
LeadingSpecials ==
    {"#", "@", "!", "$", "%", "^", "&", "*", "(", ")", "_", "+", "-", "=",
     "[", "]", "{", "}", ";", "'", ":", "\"", "\\", "|", ",", ".", "<", ">",
     "/", "?"}

\* /^[#@!?]+/
LeadingMarks == {"#", "@", "!", "?"}

RECURSIVE SplitAt(_, _)
\* response.split(separator): the pieces between the separators
SplitAt(s, seps) ==
    IF \A i \in 1..Len(s) : s[i] \notin seps THEN <<s>>
    ELSE LET i == CHOOSE j \in 1..Len(s) :
                    s[j] \in seps /\ \A h \in 1..(j - 1) : s[h] \notin seps
         IN <<SubSeq(s, 1, i - 1)>> \o SplitAt(SubSeq(s, i + 1, Len(s)), seps)

RECURSIVE DropLeading(_, _)
\* the leading characters of a class are removed
DropLeading(s, class) ==
    IF s # <<>> /\ Head(s) \in class THEN DropLeading(Tail(s), class) ELSE s

RECURSIVE DropTrailing(_, _)
DropTrailing(s, class) ==
    IF s # <<>> /\ s[Len(s)] \in class
    THEN DropTrailing(SubSeq(s, 1, Len(s) - 1), class) ELSE s

\* tag.trim()
Trim(s) == DropTrailing(DropLeading(s, Whitespace), Whitespace)

\* tag.includes(sub)
IncludesString(s, sub) ==
    \E i \in 1..(Len(s) - Len(sub) + 1) : SubSeq(s, i, i + Len(sub) - 1) = sub

\* tag.toLowerCase(), over the letters the responses are written with
ToLowerCase(s) ==
    [i \in 1..Len(s) |->
        CASE s[i] = "T" -> "t" [] s[i] = "A" -> "a" [] s[i] = "G" -> "g"
          [] s[i] = "H" -> "h" [] s[i] = "C" -> "c" [] s[i] = "F" -> "f"
          [] s[i] = "O" -> "o" [] OTHER -> s[i]]

\* tag.split(":").pop() || ""
AfterLastColon(s) ==
    LET parts == SplitAt(s, {":"}) IN parts[Len(parts)]

\* the function of map: one piece cleaned up
CleanPiece(piece, specials) ==
    LET t1 == Trim(piece)
        t2 == DropLeading(t1, specials)
        t3 == IF IncludesString(t2, <<":">>) THEN AfterLastColon(t2) ELSE t2
    IN Trim(t3)

TagWord == <<"t", "a", "g">>
ExampleWord == <<"e", "x", "a", "m", "p", "l", "e">>
ContentWord == <<"c", "o", "n", "t", "e", "n", "t">>

\* mutant: the words are looked for in the tag as it is written
KeepsCandidate_CaseSensitive(tag) ==
    /\ Len(tag) > 0
    /\ Len(tag) <= MaxTagLength
    /\ ~IncludesString(tag, <<" ">>)
    /\ ~IncludesString(tag, TagWord)
    /\ ~IncludesString(tag, ExampleWord)
    /\ ~IncludesString(tag, ContentWord)

\* the predicate of filter
KeepsCandidate(tag) ==
    /\ Len(tag) > 0
    /\ Len(tag) <= MaxTagLength
    /\ ~IncludesString(tag, <<" ">>)
    /\ ~IncludesString(ToLowerCase(tag), TagWord)
    /\ ~IncludesString(ToLowerCase(tag), ExampleWord)
    /\ ~IncludesString(ToLowerCase(tag), ContentWord)

\* response.split(...).map(...).filter(...)
ExtractWith(response, seps, specials) ==
    LET pieces == SplitAt(response, seps)
        cleaned == [i \in 1..Len(pieces) |-> CleanPiece(pieces[i], specials)]
    IN SelectSeq(cleaned, KeepsCandidate)

\* extractTags of the generator with an initialize method
ExtractTags(response) == ExtractWith(response, CommaSeparators, LeadingSpecials)

\* extractTags of src/ai/tags/generator.ts
ExtractTagsByLine(response) == ExtractWith(response, CommaOrNewline, LeadingMarks)

Foo == <<"f", "o", "o">>
Bar == <<"b", "a", "r">>

\* "Here are some relevant tags that could be used: foo, bar"
ExampleResponse ==
    <<"H", "e", "r", "e", " ", "a", "r", "e", " ", "s", "o", "m",
      "e", " ", "r", "e", "l", "e", "v", "a", "n", "t", " ", "t",
      "a", "g", "s", " ", "t", "h", "a", "t", " ", "c", "o", "u",
      "l", "d", " ", "b", "e", " ", "u", "s", "e", "d", ":", " ",
      "f", "o", "o", ",", " ", "b", "a", "r">>

\* The pieces model responses are written with: words, separators, marks,
\* and a word one character longer than a tag may be
Chunks ==
    {Foo, <<",">>, <<" ">>, <<":">>, <<"#">>, <<"\n">>,
     <<"T", "A", "G">>,
     [i \in 1..(MaxTagLength + 1) |-> "x"]}

RECURSIVE Concat(_)
Concat(chunks) ==
    IF chunks = <<>> THEN <<>> ELSE Head(chunks) \o Concat(Tail(chunks))

\* response.content: what the model answers
\* "foo\nbar": one tag per line
FooBarLines == Foo \o <<"\n">> \o Bar

Responses ==
    {ExampleResponse, FooBarLines} \cup
    UNION {{Concat(cs) : cs \in [1..n -> Chunks]} : n \in 0..MaxChunks}

IdleExtraction ==
    [pc |-> "idle", version |-> "none", response |-> <<>>, tags |-> <<>>]

\* extractTags(response.content) is called, in one version of the method
ExtractCall(version, response) ==
    /\ extraction.pc = "idle"
    /\ extraction' = [pc |-> "called", version |-> version,
                      response |-> response, tags |-> <<>>]
    /\ UNCHANGED outsideTags

\* extractTags returns
ExtractReturn ==
    /\ extraction.pc = "called"
    /\ extraction' = [extraction EXCEPT
         !.pc = "returned",
         !.tags = IF extraction.version = "initialize"
                  THEN ExtractTags(extraction.response)
                  ELSE ExtractTagsByLine(extraction.response)]
    /\ UNCHANGED outsideTags

ExtractionInit == extraction = IdleExtraction

NextExtract ==
    \/ \E v \in {"initialize", "byline"}, r \in Responses : ExtractCall(v, r)
    \/ ExtractReturn

----------------------------------------------------------------------------
(* TagGenerator: validation, formatting and filtering of the candidates.   *)
(* A relevance is a number of tenths: 10 is the 1.0 of processTags.        *)

MinTagLength == 2       \* tag.length >= 2
FullRelevance == 10     \* relevance: 1.0
HalfRelevance == 5      \* minRelevance: 0.5
DefaultMaxTags == 5     \* maxTags: 5

\* /^[a-zA-Z0-9-_]+$/: the characters of the class
FormatCharacters ==
    {"a", "b", "c", "d", "e", "f", "g", "h", "i", "j", "k", "l", "m",
     "n", "o", "p", "q", "r", "s", "t", "u", "v", "w", "x", "y", "z",
     "A", "B", "C", "D", "E", "F", "G", "H", "I", "J", "K", "L", "M",
     "N", "O", "P", "Q", "R", "S", "T", "U", "V", "W", "X", "Y", "Z",
     "0", "1", "2", "3", "4", "5", "6", "7", "8", "9", "-", "_"}

\* interface TagConfig; an optional field that is not given is None
MkTagConfig(format, customFormat, maxTags, minRelevance, deduplicate, validationRules) ==
    [format |-> format, customFormat |-> customFormat, maxTags |-> maxTags,
     minRelevance |-> minRelevance, deduplicate |-> deduplicate,
     validationRules |-> validationRules]

\* DEFAULT_CONFIG
DefaultTagConfig ==
    MkTagConfig("hashtag", None, Some(DefaultMaxTags), Some(HalfRelevance),
                TRUE, <<>>)

\* interface Tag
MkTag(text, relevance) == [text |-> text, relevance |-> relevance]

\* an error: a TagError with its code and details, or another error, of
\* which `cause` tells the kind
MkTagError(code, tag, rule, cause) ==
    [isTagError |-> TRUE, code |-> code, tag |-> tag, rule |-> rule,
     cause |-> cause]

OtherError(kind) ==
    [isTagError |-> FALSE, code |-> "none", tag |-> <<>>, rule |-> "none",
     cause |-> kind]

NoTagError == OtherError("none")

\* a rule a caller adds: validate: (tag) => tag === tag.toLowerCase()
LowercaseRule == "lowercase"

\* mutant: a tag of one character passes the length rule
Validate_FromOne(rule, tag) ==
    CASE rule = "length" -> Len(tag) >= 1 /\ Len(tag) <= MaxTagLength
      [] rule = "format" ->
            tag # <<>> /\ \A i \in 1..Len(tag) : tag[i] \in FormatCharacters
      [] OTHER -> tag = ToLowerCase(tag)

\* rule.validate(tag), for the rule of a name
Validate(rule, tag) ==
    CASE rule = "length" ->
            Len(tag) >= MinTagLength /\ Len(tag) <= MaxTagLength
      [] rule = "format" ->
            tag # <<>> /\ \A i \in 1..Len(tag) : tag[i] \in FormatCharacters
      [] OTHER -> tag = ToLowerCase(tag)

\* [...DEFAULT_VALIDATION_RULES, ...(config.validationRules || [])]
ValidationRules(config) == <<"length", "format">> \o config.validationRules

\* the first rule of the list the tag fails, 0 when it passes them all
FirstFailing(tag, rules) ==
    IF \A r \in 1..Len(rules) : Validate(rules[r], tag) THEN 0
    ELSE CHOOSE r \in 1..Len(rules) :
            /\ ~Validate(rules[r], tag)
            /\ \A q \in 1..(r - 1) : Validate(rules[q], tag)

\* mutant: the rule reported is the last one the tag fails
ProcessTags_LastRule(tags, config) ==
    LET rules == ValidationRules(config)
        bad == {i \in 1..Len(tags) : FirstFailing(tags[i], rules) # 0}
    IN IF bad = {}
       THEN [threw |-> FALSE, error |-> NoTagError,
             tags |-> [i \in 1..Len(tags) |-> MkTag(tags[i], FullRelevance)]]
       ELSE LET i == CHOOSE j \in bad : \A h \in bad : j <= h
                r == CHOOSE q \in 1..Len(rules) :
                        /\ ~Validate(rules[q], tags[i])
                        /\ \A h \in (q + 1)..Len(rules) :
                              Validate(rules[h], tags[i])
            IN [threw |-> TRUE, tags |-> <<>>,
                error |-> MkTagError("VALIDATION_ERROR", tags[i], rules[r],
                                     "none")]

\* processTags: the tags, or the TagError of the first candidate that fails
\* a rule, with the first rule it fails
ProcessTags(tags, config) ==
    LET rules == ValidationRules(config)
        bad == {i \in 1..Len(tags) : FirstFailing(tags[i], rules) # 0}
    IN IF bad = {}
       THEN [threw |-> FALSE, error |-> NoTagError,
             tags |-> [i \in 1..Len(tags) |-> MkTag(tags[i], FullRelevance)]]
       ELSE LET i == CHOOSE j \in bad : \A h \in bad : j <= h
                r == FirstFailing(tags[i], rules)
            IN [threw |-> TRUE, tags |-> <<>>,
                error |-> MkTagError("VALIDATION_ERROR", tags[i], rules[r],
                                     "none")]

\* "{tag}"
Placeholder == <<"{", "t", "a", "g", "}">>

\* template.replace(pattern, replacement), for a pattern that is a string:
\* the first occurrence is replaced
ReplaceFirst(template, pattern, replacement) ==
    LET n == Len(pattern)
        at == {i \in 1..(Len(template) - n + 1) :
                  SubSeq(template, i, i + n - 1) = pattern}
    IN IF at = {} THEN template
       ELSE LET i == CHOOSE j \in at : \A h \in at : j <= h
            IN SubSeq(template, 1, i - 1) \o replacement
                 \o SubSeq(template, i + n, Len(template))

\* formatTag: the text, or a TagError of code FORMAT_ERROR
FormatTag(tag, config, own) ==
    LET format == IF config.format = Undefined THEN own.format
                  ELSE config.format
    IN CASE format = "hashtag" ->
              [threw |-> FALSE, text |-> <<"#">> \o tag, error |-> NoTagError]
         [] format = "plain" ->
              [threw |-> FALSE, text |-> tag, error |-> NoTagError]
         [] format = "custom" ->
              IF config.customFormat = None \/ config.customFormat = Some(<<>>)
              THEN [threw |-> TRUE, text |-> <<>>,
                    error |-> MkTagError("FORMAT_ERROR", <<>>, "none", "none")]
              ELSE [threw |-> FALSE, error |-> NoTagError,
                    text |-> ReplaceFirst(config.customFormat[1], Placeholder,
                                          tag)]
         [] OTHER ->
              [threw |-> TRUE, text |-> <<>>,
               error |-> MkTagError("FORMAT_ERROR", <<>>, "none", "none")]

\* formatTags: tags.map, which ends at the first tag formatTag throws for
FormatTags(tags, config, own) ==
    LET each == [i \in 1..Len(tags) |-> FormatTag(tags[i].text, config, own)]
    IN IF \E i \in 1..Len(tags) : each[i].threw
       THEN [threw |-> TRUE, tags |-> <<>>,
             error |-> each[CHOOSE i \in 1..Len(tags) :
                              /\ each[i].threw
                              /\ \A h \in 1..(i - 1) : ~each[h].threw].error]
       ELSE [threw |-> FALSE, error |-> NoTagError,
             tags |-> [i \in 1..Len(tags) |->
                          MkTag(each[i].text, tags[i].relevance)]]

\* a number that is given and is not 0
Truthy(n) == n # None /\ n[1] # 0

\* tags.slice(0, end)
Slice(tags, end) ==
    IF end >= 0 THEN SubSeq(tags, 1, IF end < Len(tags) THEN end ELSE Len(tags))
    ELSE SubSeq(tags, 1, IF Len(tags) + end > 0 THEN Len(tags) + end ELSE 0)

\* tags.filter((tag) => tag.relevance >= minRelevance)
RelevantTags(tags, minRelevance) ==
    LET relevant(tag) == tag.relevance >= minRelevance
    IN SelectSeq(tags, relevant)

\* the filter over a Set of the keys seen: the first tag of each key stays
KeepFirst(tags, keys) ==
    LET first(i) == \A h \in 1..(i - 1) : keys[h] # keys[i]
        kept == SelectSeq([i \in 1..Len(tags) |-> i], first)
    IN [k \in 1..Len(kept) |-> tags[kept[k]]]

\* filterTags of src/ai/tags/generator.ts: relevance, then maxTags, then
\* the texts as they are written
FilterTagsExact(tags, config) ==
    LET f1 == IF Truthy(config.minRelevance)
              THEN RelevantTags(tags, config.minRelevance[1]) ELSE tags
        f2 == IF Truthy(config.maxTags) THEN Slice(f1, config.maxTags[1])
              ELSE f1
    IN IF config.deduplicate
       THEN KeepFirst(f2, [i \in 1..Len(f2) |-> f2[i].text])
       ELSE f2

\* filterTags of the generator with an initialize method: maxTags, then
\* relevance, then the texts in lower case
FilterTags(tags, config) ==
    LET f1 == IF Truthy(config.maxTags) /\ Len(tags) > config.maxTags[1]
              THEN Slice(tags, config.maxTags[1]) ELSE tags
        f2 == IF Truthy(config.minRelevance)
              THEN RelevantTags(f1, config.minRelevance[1]) ELSE f1
    IN IF config.deduplicate
       THEN KeepFirst(f2, [i \in 1..Len(f2) |-> ToLowerCase(f2[i].text)])
       ELSE f2

MaxCandidates == 2      \* candidates given to one processTags call
MaxFilterInput == 3     \* tags given to one filterTags call

FoUpper == <<"F", "O">>
FooUpper == <<"F", "O", "O">>
LongestTag == [i \in 1..MaxTagLength |-> "x"]
TooLongTag == [i \in 1..(MaxTagLength + 1) |-> "x"]

\* the strings processTags is given: of 1, 2, 3, 50 and 51 characters, in
\* lower and in upper case, with and without a character outside the class
Candidates ==
    {<<"f">>, <<"f", "o">>, FoUpper, Foo, LongestTag, TooLongTag,
     <<"f", "#">>, <<"#">>, <<"F", "#">>}

\* "p-{tag}"
PrefixTemplate == <<"p", "-">> \o Placeholder

SeqsUpTo(S, n) == UNION {[1..k -> S] : k \in 0..n}

\* the configurations the calls are made with
RuleConfigs ==
    {MkTagConfig("hashtag", None, None, None, TRUE, rules) :
        rules \in {<<>>, <<LowercaseRule>>}}

FormatConfigs ==
    {MkTagConfig(f, c, None, None, TRUE, <<>>) :
        f \in {"hashtag", "plain", "custom", "invalid", Undefined},
        c \in {None, Some(<<>>), Some(PrefixTemplate)}}

FilterConfigs ==
    {MkTagConfig("plain", None, m, r, d, <<>>) :
        m \in {None, Some(1), Some(2), Some(DefaultMaxTags)},
        r \in {None, Some(HalfRelevance)}, d \in BOOLEAN}

\* the tags formatTags and filterTags are given
ValidTags == {MkTag(t, FullRelevance) : t \in {<<"f", "o">>, Foo, LongestTag}}
FilterInputs ==
    {MkTag(t, r) : t \in {Foo, FooUpper, Bar}, r \in {FullRelevance, 3}}

IdleTagCall ==
    [pc |-> "idle", method |-> "none", version |-> "none", input |-> <<>>,
     config |-> DefaultTagConfig, threw |-> FALSE, result |-> <<>>,
     error |-> NoTagError]

\* a method of the generator is called on its own, as its tests do
TagCall(method, version, input, config) ==
    /\ tagcall.pc = "idle"
    /\ tagcall' = [IdleTagCall EXCEPT !.pc = "called", !.method = method,
                     !.version = version, !.input = input, !.config = config]
    /\ UNCHANGED <<tgen, outsidePipe>>

\* what the method called gives: a list of tags, or an error
TagCallOutcome(c) ==
    CASE c.method = "processTags" -> ProcessTags(c.input, c.config)
      [] c.method = "formatTags" ->
            FormatTags(c.input, c.config, DefaultTagConfig)
      [] OTHER ->
            [threw |-> FALSE, error |-> NoTagError,
             tags |-> IF c.version = "initialize"
                      THEN FilterTags(c.input, c.config)
                      ELSE FilterTagsExact(c.input, c.config)]

\* the method returns or throws
TagCallReturn ==
    /\ tagcall.pc = "called"
    /\ LET out == TagCallOutcome(tagcall) IN
        tagcall' = [tagcall EXCEPT !.pc = "returned", !.threw = out.threw,
                      !.result = out.tags, !.error = out.error]
    /\ UNCHANGED <<tgen, outsidePipe>>

TagCallInit == tagcall = IdleTagCall

NextTagCall ==
    \/ /\ tagcall.pc = "idle"
       /\ \E cs \in SeqsUpTo(Candidates, MaxCandidates), c \in RuleConfigs :
             TagCall("processTags", "initialize", cs, c)
    \/ /\ tagcall.pc = "idle"
       /\ \E ts \in SeqsUpTo(ValidTags, MaxCandidates), c \in FormatConfigs :
             TagCall("formatTags", "initialize", ts, c)
    \/ /\ tagcall.pc = "idle"
       /\ \E v \in {"initialize", "byline"}, c \in FilterConfigs :
             \E ts \in SeqsUpTo(FilterInputs, MaxFilterInput) :
                 TagCall("filterTags", v, ts, c)
    \/ TagCallReturn

----------------------------------------------------------------------------
(* TagGenerator.generateTags, of the generator with an initialize method *)

MaxGenerateCalls == 2   \* generateTags calls on the instance

\* options.config: the fields given, and their values
MkOverride(has, config) == [has |-> has, config |-> config]

NoOverride == MkOverride({}, DefaultTagConfig)

\* { ...this.config, ...options.config }
MergeTagConfig(own, override) ==
    [f \in DOMAIN own |->
        IF f \in override.has THEN override.config[f] ELSE own[f]]

Overrides ==
    {NoOverride,
     MkOverride({"format"}, MkTagConfig("plain", None, None, None, TRUE, <<>>)),
     MkOverride({"format"}, MkTagConfig("custom", None, None, None, TRUE, <<>>)),
     MkOverride({"format"}, MkTagConfig("invalid", None, None, None, TRUE, <<>>)),
     MkOverride({"format", "customFormat"},
                MkTagConfig("custom", Some(PrefixTemplate), None, None, TRUE, <<>>)),
     MkOverride({"validationRules"},
                MkTagConfig("plain", None, None, None, TRUE, <<LowercaseRule>>)),
     MkOverride({"maxTags", "deduplicate"},
                MkTagConfig("plain", None, Some(1), None, FALSE, <<>>))}

\* interface TagOptions: a model of the caller's or none, and a config
GenerateOptions ==
    {[hasModel |-> m, config |-> o] : m \in BOOLEAN, o \in Overrides}

\* what the model answers a generateTags call with
ModelResponses ==
    {<<>>,
     Foo \o <<",", " ">> \o Bar,
     Foo \o <<",">> \o FooUpper \o <<",">> \o Bar,
     Foo \o <<",", "f">>,
     <<"~", ",", "f">>,
     Foo \o <<",", "F", "~">>,
     FoUpper,
     LongestTag,
     FooBarLines}

\* what model.generate rejects with
ModelRejections == {"ModelError", "Error"}

\* new TagGenerator(aiService, config)
NewTagGenerator(hasService, serviceReady) ==
    [isTestMode |-> ~hasService, initialized |-> FALSE,
     config |-> DefaultTagConfig, serviceReady |-> serviceReady,
     pc |-> "idle", started |-> 0, options |-> [hasModel |-> FALSE,
                                                config |-> NoOverride],
     merged |-> DefaultTagConfig, asked |-> FALSE, rejected |-> FALSE,
     response |-> <<>>, candidates |-> <<>>, validated |-> FALSE,
     tags |-> <<>>, error |-> NoTagError]

\* AIService.initialize has set the default model: getModel() returns it
ServiceInitialize ==
    /\ tgen.pc # "new"
    /\ ~tgen.isTestMode
    /\ ~tgen.serviceReady
    /\ tgen.pc # "generating"
    /\ tgen' = [tgen EXCEPT !.serviceReady = TRUE]
    /\ UNCHANGED <<tagcall, outsidePipe>>

\* initialize(): in test mode, or with a service whose getModel() returns,
\* the generator becomes initialized; the Error of getModel() is caught
\* and thrown again inside a TagError
InitializeThrows(g) == ~g.initialized /\ ~g.isTestMode /\ ~g.serviceReady

\* mutant: the catch of generateTags throws again whatever it caught
CaughtByGenerate_Rethrown(error) == error

\* catch (error): a TagError is thrown again, another error is made the
\* details of a TagError of code GENERATION_ERROR
CaughtByGenerate(error) ==
    IF error.isTagError THEN error
    ELSE MkTagError("GENERATION_ERROR", <<>>, "none", error.cause)

\* generateTags(options), up to await model.generate(prompt)
GenerateTagsCall(options) ==
    /\ tgen.pc \in {"idle", "returned", "threw"}
    /\ tgen.started < MaxGenerateCalls
    /\ LET call == [tgen EXCEPT !.started = @ + 1, !.options = options,
                      !.merged = tgen.config, !.asked = FALSE,
                      !.rejected = FALSE, !.response = <<>>,
                      !.candidates = <<>>, !.validated = FALSE,
                      !.tags = <<>>, !.error = NoTagError]
       IN tgen' =
            IF InitializeThrows(tgen)
            THEN [call EXCEPT !.pc = "threw",
                    !.error = CaughtByGenerate(
                       MkTagError("INITIALIZATION_ERROR", <<>>, "none",
                                  "Error"))]
            ELSE IF tgen.isTestMode
            THEN [call EXCEPT !.initialized = TRUE, !.pc = "returned"]
            ELSE IF ~options.hasModel /\ ~tgen.serviceReady
            THEN [call EXCEPT !.initialized = TRUE, !.pc = "threw",
                    !.error = CaughtByGenerate(
                       MkTagError("MODEL_ERROR", <<>>, "none", "Error"))]
            ELSE [call EXCEPT !.initialized = TRUE, !.pc = "generating",
                    !.asked = TRUE,
                    !.merged = MergeTagConfig(tgen.config, options.config)]
    /\ UNCHANGED <<tagcall, outsidePipe>>

\* model.generate resolves: extractTags, processTags, formatTags and
\* filterTags run, and generateTags returns the tags or throws
GenerateTagsResolves(response) ==
    /\ tgen.pc = "generating"
    /\ LET candidates == ExtractTags(response)
           processed == ProcessTags(candidates, tgen.merged)
           formatted == FormatTags(processed.tags, tgen.merged, tgen.config)
           got == [tgen EXCEPT !.response = response,
                     !.candidates = candidates]
       IN tgen' =
            IF processed.threw
            THEN [got EXCEPT !.pc = "threw",
                    !.error = CaughtByGenerate(processed.error)]
            ELSE IF formatted.threw
            THEN [got EXCEPT !.pc = "threw", !.validated = TRUE,
                    !.error = CaughtByGenerate(formatted.error)]
            ELSE [got EXCEPT !.pc = "returned", !.validated = TRUE,
                    !.tags = FilterTags(formatted.tags, tgen.merged)]
    /\ UNCHANGED <<tagcall, outsidePipe>>

\* model.generate rejects
GenerateTagsRejects(kind) ==
    /\ tgen.pc = "generating"
    /\ tgen' = [tgen EXCEPT !.pc = "threw", !.rejected = TRUE,
                  !.error = CaughtByGenerate(OtherError(kind))]
    /\ UNCHANGED <<tagcall, outsidePipe>>

\* the generator is made with an AIService, initialized or not, or with
\* none
TagGeneratorConstruct(hasService, serviceReady) ==
    /\ tgen.pc = "new"
    /\ tgen' = NewTagGenerator(hasService, serviceReady)
    /\ UNCHANGED <<tagcall, outsidePipe>>

\* no generator yet
NoTagGenerator == [NewTagGenerator(FALSE, FALSE) EXCEPT !.pc = "new"]

TagGeneratorInit == tgen = NoTagGenerator

NextGenerate ==
    \/ \E h \in BOOLEAN : \E r \in {FALSE, h} : TagGeneratorConstruct(h, r)
    \/ ServiceInitialize
    \/ \E o \in GenerateOptions : GenerateTagsCall(o)
    \/ \E r \in ModelResponses : GenerateTagsResolves(r)
    \/ \E k \in ModelRejections : GenerateTagsRejects(k)

----------------------------------------------------------------------------
(* NodeSearch (src/core/search.ts) over a MiniSearch index.  The index   *)
(* is the list of the documents added and not removed, in the order they   *)
(* were added; a text is the list of its terms.  A score is the sum, over  *)
(* the fields, of the weights of the terms the query matches, the field    *)
(* tags counting twice.                                                    *)

MaxSearchOps == 3       \* calls made on the NodeSearch instance
DefaultLimit == 10      \* options.limit ?? 10
TagsBoost == 2          \* boost: { tags: 2 }

SearchIds == {1, 2}
BulkIds == 3..(DefaultLimit + 3)

\* the terms of the texts, and those of the queries
Python == "python"
Snake == "snake"
Py == "py"
Pithon == "pithon"

\* a node as the index sees it
MkDoc(id, text, tags) == [id |-> id, raw_text |-> text, tags |-> tags]

SearchNodes ==
    {MkDoc(i, <<t>>, g) :
        i \in SearchIds, t \in {Python, Snake}, g \in {<<>>, <<Python>>}}

\* one node more than the default limit, all with the same text
BulkNodes == [k \in 1..(DefaultLimit + 1) |-> MkDoc(k + 2, <<Python>>, <<>>)]

\* the lists addNodes is called with
NodeBatches ==
    {<<>>, BulkNodes}
    \cup {<<n>> : n \in SearchNodes}
    \cup {<<n, m>> : n \in {MkDoc(1, <<Python>>, <<Python>>)},
                     m \in {MkDoc(2, <<Python>>, <<>>),
                            MkDoc(2, <<Snake>>, <<Python>>),
                            MkDoc(1, <<Snake>>, <<>>)}}

\* interface SearchOptions; an option that is not given is None
MkSearchOptions(query, limit, fuzzy, minScore) ==
    [query |-> query, limit |-> limit, fuzzy |-> fuzzy, minScore |-> minScore]

SearchOptionsSet ==
    {MkSearchOptions(q, l, None, None) :
        q \in {<<>>, <<Python>>, <<Py>>, <<Pithon>>, <<Snake>>},
        l \in {None, Some(1)}}
    \cup {MkSearchOptions(<<Python>>, l, None, m) :
        l \in {Some(0), Some(2)}, m \in {Some(0), Some(9)}}
    \cup {MkSearchOptions(<<Pithon>>, None, Some(FALSE), None),
          MkSearchOptions(<<Py>>, None, Some(TRUE), Some(4))}

IndexIds(index) == {index[i].id : i \in 1..Len(index)}

\* MiniSearch.add: a document whose id is in the index already is refused
RECURSIVE AddAll(_, _)
\* MiniSearch.addAll: the documents are added one by one, up to the first
\* one that is refused
AddAll(index, batch) ==
    IF batch = <<>> THEN [threw |-> FALSE, index |-> index]
    ELSE IF Head(batch).id \in IndexIds(index)
    THEN [threw |-> TRUE, index |-> index]
    ELSE AddAll(Append(index, Head(batch)), Tail(batch))

\* MiniSearch.remove({ id }): the document of that id leaves the index; an
\* id that is not in the index is refused
Remove(index, id) ==
    IF id \notin IndexIds(index) THEN [threw |-> TRUE, index |-> index]
    ELSE LET other(d) == d.id # id
         IN [threw |-> FALSE, index |-> SelectSeq(index, other)]

\* the weight of a term of a document for a term of the query: prefix: true,
\* and fuzzy unless options.fuzzy is false
TermWeight(q, t, fuzzy) ==
    IF q = t THEN 8                                       \* found as it is
    ELSE IF fuzzy /\ q = Pithon /\ t = Python THEN 4      \* one edit away
    ELSE IF q = Py /\ t = Python THEN 3                   \* found as a prefix
    ELSE 0

RECURSIVE FieldWeight(_, _, _)
FieldWeight(query, terms, fuzzy) ==
    IF terms = <<>> THEN 0
    ELSE (IF query = <<>> THEN 0 ELSE TermWeight(query[1], Head(terms), fuzzy))
         + FieldWeight(query, Tail(terms), fuzzy)

\* fields: ["raw_text", "tags"], boost: { tags: 2 }
Score(doc, query, fuzzy) ==
    FieldWeight(query, doc.raw_text, fuzzy)
      + TagsBoost * FieldWeight(query, doc.tags, fuzzy)

MkResult(doc, score) == [node |-> doc, score |-> score]

RECURSIVE ByScore(_)
\* the results in the order of their scores, the highest first
ByScore(results) ==
    IF results = <<>> THEN <<>>
    ELSE LET i == CHOOSE j \in 1..Len(results) :
                    /\ \A h \in 1..Len(results) :
                          results[h].score <= results[j].score
                    /\ \A h \in 1..(j - 1) :
                          results[h].score < results[j].score
             rest == [k \in 1..(Len(results) - 1) |->
                         IF k < i THEN results[k] ELSE results[k + 1]]
         IN <<results[i]>> \o ByScore(rest)

\* every document the query matches, with its score
Matching(index, o) ==
    LET fuzzy == IF o.fuzzy = None THEN TRUE ELSE o.fuzzy[1]
        scored == [i \in 1..Len(index) |->
                      MkResult(index[i], Score(index[i], o.query, fuzzy))]
        matched(r) == r.score > 0
    IN SelectSeq(scored, matched)

\* mutant: the filter of minScore is left out
Ranked_NoFilter(index, o) == ByScore(Matching(index, o))

\* this.searchIndex.search(options.query, { fuzzy, prefix, filter })
Ranked(index, o) ==
    LET passes(r) == ~(Truthy(o.minScore) /\ r.score < o.minScore[1])
    IN ByScore(SelectSeq(Matching(index, o), passes))

NoDoc == MkDoc(0, <<>>, <<>>)
NoSearchOptions == MkSearchOptions(<<>>, None, None, None)

\* new NodeSearch(), and the last call made on it
NewNodeSearch ==
    [isLoaded |-> FALSE, index |-> <<>>, ops |-> 0, added |-> 0,
     gone |-> {}, op |-> "none", threw |-> FALSE, before |-> <<>>,
     loadedBefore |-> FALSE, id |-> 0, node |-> NoDoc,
     options |-> NoSearchOptions, results |-> <<>>]

\* a call starts: what the history keeps of it
SearchOp(op) ==
    [nsearch EXCEPT !.ops = @ + 1, !.op = op, !.threw = FALSE,
       !.before = nsearch.index, !.loadedBefore = nsearch.isLoaded,
       !.id = 0, !.node = NoDoc, !.options = NoSearchOptions,
       !.results = <<>>]

\* addNodes(nodes)
AddNodes(batch) ==
    /\ nsearch.ops < MaxSearchOps
    /\ LET r == AddAll(nsearch.index, batch) IN
        nsearch' = [SearchOp("addNodes") EXCEPT
            !.index = r.index,
            !.threw = r.threw,
            !.isLoaded = IF r.threw THEN nsearch.isLoaded ELSE TRUE,
            !.added = IF r.threw THEN @ ELSE @ + 1,
            !.gone = @ \ IndexIds(r.index)]
    /\ UNCHANGED outsideSearch

\* mutant: the index is searched whether it is loaded or not
Search_Unguarded(o) ==
    /\ nsearch.ops < MaxSearchOps
    /\ nsearch' = [SearchOp("search") EXCEPT
            !.options = o,
            !.results = Slice(Ranked(nsearch.index, o),
                              IF o.limit = None THEN DefaultLimit
                              ELSE o.limit[1])]
    /\ UNCHANGED outsideSearch

\* search(options)
Search(o) ==
    /\ nsearch.ops < MaxSearchOps
    /\ nsearch' = [SearchOp("search") EXCEPT
            !.options = o,
            !.results =
                IF ~nsearch.isLoaded THEN <<>>
                ELSE Slice(Ranked(nsearch.index, o),
                           IF o.limit = None THEN DefaultLimit
                           ELSE o.limit[1])]
    /\ UNCHANGED outsideSearch

\* mutant: the index keeps the document
RemoveNode_Kept(id) ==
    /\ nsearch.ops < MaxSearchOps
    /\ nsearch' = [SearchOp("removeNode") EXCEPT
            !.id = id, !.gone = @ \cup {id}]
    /\ UNCHANGED outsideSearch

\* removeNode(id)
RemoveNode(id) ==
    /\ nsearch.ops < MaxSearchOps
    /\ LET r == Remove(nsearch.index, id) IN
        nsearch' = [SearchOp("removeNode") EXCEPT
            !.id = id, !.index = r.index, !.threw = r.threw,
            !.gone = @ \cup {id}]
    /\ UNCHANGED outsideSearch

\* updateNode(node): remove, and when remove did not throw, add
UpdateNode(node) ==
    /\ nsearch.ops < MaxSearchOps
    /\ LET r == Remove(nsearch.index, node.id) IN
        nsearch' = [SearchOp("updateNode") EXCEPT
            !.node = node, !.id = node.id, !.threw = r.threw,
            !.index = IF r.threw THEN r.index ELSE Append(r.index, node)]
    /\ UNCHANGED outsideSearch

\* isIndexLoaded()
IsIndexLoaded == nsearch.isLoaded

NodeSearchInit == nsearch = NewNodeSearch

NextSearch ==
    \/ \E b \in NodeBatches : AddNodes(b)
    \/ \E o \in SearchOptionsSet : Search(o)
    \/ \E i \in SearchIds : RemoveNode(i)
    \/ \E n \in SearchNodes : UpdateNode(n)

----------------------------------------------------------------------------
(* ConfigManager, config.json and the data directories *)

MaxConfigOps == 5

DefaultDataDir == "data"
DefaultModel == "phi4-mini"

\* Directories a user names: two writable ones; "ro", which exists under a
\* writable parent and is itself read-only; "void", whose parent can neither
\* be created nor written
DataDirs == {DefaultDataDir, "new", "ro", "void"}
WritableDirs == {DefaultDataDir, "new"}

\* What `ollama list` prints, and the names a user types
InstalledModels == {DefaultModel, "llama2"}
ModelNames == InstalledModels \cup {"unknown"}

\* interface Config
MkConfig(dataDir, model) == [dataDir |-> dataDir, model |-> model]

DefaultConfig == MkConfig(DefaultDataDir, DefaultModel)

\* Partial<Config>
MkConfigUpdate(has, dataDir, model) ==
    [has |-> has, dataDir |-> dataDir, model |-> model]

\* validateDataDir does not throw: mkdir and access of dirname(path)
ValidateDataDir(path) == path # "void"

\* validateModel does not throw: the fallback list without a service, the
\* service's answer with one (any model when ollama is not installed)
ValidateModel(model, hasService, up) ==
    IF ~hasService THEN model = DefaultModel
    ELSE (~up \/ model \in InstalledModels)

\* validateConfig does not throw
ValidateConfig(c, hasService, up) ==
    ValidateDataDir(c.dataDir) /\ ValidateModel(c.model, hasService, up)

\* validateConfigUpdate does not throw
ValidateConfigUpdate(u, hasService, up) ==
    /\ "dataDir" \in u.has => ValidateDataDir(u.dataDir)
    /\ "model" \in u.has => ValidateModel(u.model, hasService, up)

\* { ...this.config, ...updates }
MergeConfig(c, u) ==
    MkConfig(IF "dataDir" \in u.has THEN u.dataDir ELSE c.dataDir,
             IF "model" \in u.has THEN u.model ELSE c.model)

\* ConfigManager.save: validate, then write config.json (w: the write succeeds)
Save(s, up, w) ==
    IF ~ValidateConfig(s.config, s.hasService, up)
    THEN [s EXCEPT !.outcome = "ConfigValidationError"]
    ELSE IF w THEN [s EXCEPT !.file = <<s.config>>, !.outcome = "ok"]
    ELSE [s EXCEPT !.outcome = "Error"]

\* ConfigManager.updateConfig: validate the updates, assign, save
UpdateConfig(s, u, up, w) ==
    IF ~ValidateConfigUpdate(u, s.hasService, up)
    THEN [s EXCEPT !.outcome = "ConfigValidationError"]
    ELSE Save([s EXCEPT !.config = MergeConfig(@, u)], up, w)

\* ConfigManager.setDataDir
SetDataDir(s, path, up, w) ==
    UpdateConfig(s, MkConfigUpdate({"dataDir"}, path, ""), up, w)

\* ConfigManager.setModel
SetModel(s, model, up, w) ==
    UpdateConfig(s, MkConfigUpdate({"model"}, "", model), up, w)

\* the outer catch of initialize: throw new Error(`Failed to initialize ...`)
InitializeWrapped(s) ==
    [s EXCEPT !.outcome = IF @ = "ok" THEN "ok" ELSE "Error"]

\* ConfigManager.initialize: no file, a valid file, or a file that fails
\* validation, which is replaced by the defaults and saved
ConfigInitialize(s, up, w) ==
    IF s.file = <<>> THEN InitializeWrapped(Save(s, up, w))
    ELSE IF ValidateConfig(s.file[1], s.hasService, up)
    THEN [s EXCEPT !.config = s.file[1], !.outcome = "ok"]
    ELSE InitializeWrapped(Save([s EXCEPT !.config = DefaultConfig,
                                          !.metInvalid = TRUE], up, w))

\* NodeStorage.validatePath of nodes.jsonl in the configured directory
ValidatePath(dir) == dir \in WritableDirs

\* new NodeStorage(configManager) and initialize(): the file is created if
\* it is not there (w: the write succeeds)
StorageInitialize(s, w) ==
    IF ~ValidatePath(s.config.dataDir)
    THEN [s EXCEPT !.outcome = "PathValidationError"]
    ELSE IF s.exists[s.config.dataDir] THEN [s EXCEPT !.outcome = "ok"]
    ELSE IF w THEN [s EXCEPT !.exists[s.config.dataDir] = TRUE,
                            !.logs[s.config.dataDir] = <<>>,
                            !.outcome = "ok"]
    ELSE [s EXCEPT !.outcome = "StorageError"]

\* NodeStorage.load from the configured directory
StorageLoad(s) ==
    IF ~ValidatePath(s.config.dataDir)
    THEN [s EXCEPT !.outcome = "PathValidationError"]
    ELSE IF ~s.exists[s.config.dataDir]
    THEN [s EXCEPT !.outcome = "StorageError"]
    ELSE [s EXCEPT !.nodes = LoadLines(@, ReadLines(s.logs[s.config.dataDir])),
                   !.outcome = LoadOutcome(s.logs[s.config.dataDir])]

\* what the catch of migrateData throws
MigrateWrapped(s) ==
    [s EXCEPT !.outcome = IF @ \in {"ok", "PathValidationError"} THEN @
                          ELSE "StorageError"]

\* NodeStorage.migrateData(newPath): validate the new path, write the nodes
\* of the map there, then configManager.setDataDir(newPath)
MigrateData(s, newPath, res, up, w) ==
    IF ~ValidatePath(newPath)
    THEN [s EXCEPT !.outcome = "PathValidationError"]
    ELSE IF res # "ok"
    THEN [s EXCEPT !.logs[newPath] =
                       FsWriteFile(@, FileContent(MapValues(s.nodes)), res),
                   !.exists[newPath] = (@ \/ res = "truncated"),
                   !.outcome = "StorageError"]
    ELSE MigrateWrapped(SetDataDir(
             [s EXCEPT !.logs[newPath] = FileContent(MapValues(s.nodes)),
                       !.exists[newPath] = TRUE], newPath, up, w))

\* The state of one process: the ConfigManager, the NodeStorage it made, the
\* position in the `config set dataDir` flow; and the files that outlive it
NewProcess(file, logs, exists, ops, nextNode) ==
    [config |-> DefaultConfig, hasService |-> FALSE,
     file |-> file, logs |-> logs, exists |-> exists,
     hasStorage |-> FALSE, nodes |-> <<>>,
     pc |-> "start", flow |-> "none",
     flowConfig |-> DefaultConfig,   \* const config = configManager.getConfig()
     flowValue |-> DefaultDataDir,   \* the <new> of the command line
     flowLogs |-> logs,              \* history: the logs when the flow began
     op |-> "none", outcome |-> "ok", before |-> DefaultConfig,
     beforeFile |-> file, arg |-> DefaultDataDir,
     metInvalid |-> FALSE, ops |-> ops, nextNode |-> nextNode]

ConfigInit ==
    cfg = NewProcess(<<>>, [d \in WritableDirs |-> <<>>],
                     [d \in WritableDirs |-> FALSE], 0, 1)

\* A step of the process: the call made, and the configuration before it
ConfigStep(op, arg, s) ==
    /\ cfg.ops < MaxConfigOps
    /\ cfg' = [s EXCEPT !.op = op, !.arg = arg, !.before = cfg.config,
                        !.beforeFile = cfg.file, !.ops = cfg.ops + 1]
    /\ UNCHANGED outsideConfig

\* configCommand, lines 20-26: initialize, then setOllamaService
CommandStart(up, w) ==
    /\ cfg.pc = "start"
    /\ ConfigStep("initialize", cfg.config.dataDir,
         [ConfigInitialize(cfg, up, w) EXCEPT
            !.pc = IF ConfigInitialize(cfg, up, w).outcome = "ok"
                   THEN "ready" ELSE "exit",
            !.hasService = (ConfigInitialize(cfg, up, w).outcome = "ok"),
            !.flowConfig = ConfigInitialize(cfg, up, w).config])

\* `config set model <value>`
CommandSetModel(model, up, w) ==
    /\ cfg.pc = "ready" /\ cfg.flow = "none"
    /\ ConfigStep("setModel", cfg.config.dataDir,
                  [SetModel(cfg, model, up, w) EXCEPT !.pc = "exit"])

\* where the flow goes after a step: on, or to the catch block
FlowAfter(s, next) ==
    [s EXCEPT !.flow = IF s.outcome = "ok" THEN next ELSE "revert"]

\* `config set dataDir <value>`, line 95: setDataDir(value)
FlowSetDataDir(value, up, w) ==
    /\ cfg.pc = "ready" /\ cfg.flow = "none" /\ ~cfg.hasStorage
    /\ ConfigStep("setDataDir", value,
         FlowAfter([SetDataDir(cfg, value, up, w) EXCEPT
                      !.flowValue = value, !.flowLogs = cfg.logs],
                   "initialize"))

\* lines 98-99: new NodeStorage(configManager), storage.initialize()
FlowInitialize(w) ==
    /\ cfg.pc = "ready" /\ cfg.flow = "initialize"
    /\ ConfigStep("storage.initialize", cfg.config.dataDir,
         FlowAfter([StorageInitialize(cfg, w) EXCEPT
                      !.hasStorage = TRUE, !.nodes = <<>>], "load"))

\* line 100: storage.load()
FlowLoad ==
    /\ cfg.pc = "ready" /\ cfg.flow = "load"
    /\ ConfigStep("storage.load", cfg.config.dataDir,
                  FlowAfter(StorageLoad(cfg), "migrate"))

\* line 104: storage.migrateData(value); the command has succeeded
FlowMigrate(res, up, w) ==
    /\ cfg.pc = "ready" /\ cfg.flow = "migrate"
    /\ ConfigStep("migrateData", cfg.flowValue,
         [FlowAfter(MigrateData(cfg, cfg.flowValue, res, up, w), "succeeded")
            EXCEPT !.pc = IF MigrateData(cfg, cfg.flowValue, res, up, w).outcome
                             = "ok" THEN "exit" ELSE "ready"])

\* lines 133-136: the catch block puts the old directory back, and exits
FlowRevert(up, w) ==
    /\ cfg.pc = "ready" /\ cfg.flow = "revert"
    /\ ConfigStep("revert", cfg.flowConfig.dataDir,
         [SetDataDir(cfg, cfg.flowConfig.dataDir, up, w) EXCEPT
            !.pc = "exit", !.flow = "failed"])

\* A program that uses the store as a library: a NodeStorage on the
\* configured directory, initialized and loaded
LibraryInitialize(w) ==
    /\ cfg.pc = "ready" /\ cfg.flow = "none" /\ ~cfg.hasStorage
    /\ ConfigStep("storage.initialize", cfg.config.dataDir,
         [StorageInitialize(cfg, w) EXCEPT !.hasStorage = TRUE, !.nodes = <<>>])

LibraryLoad ==
    /\ cfg.pc = "ready" /\ cfg.flow = "none" /\ cfg.hasStorage
    /\ cfg.op = "storage.initialize" /\ cfg.outcome = "ok"
    /\ ConfigStep("storage.load", cfg.config.dataDir, StorageLoad(cfg))

\* and migrateData(newPath) called on it
LibraryMigrate(newPath, res, up, w) ==
    /\ cfg.pc = "ready" /\ cfg.flow = "none" /\ cfg.hasStorage
    /\ cfg.op = "storage.load"
    /\ ConfigStep("migrateData", newPath,
         [MigrateData(cfg, newPath, res, up, w) EXCEPT !.pc = "exit"])

\* the directory config.json names, the default one when there is no file
ConfiguredDir ==
    IF cfg.file = <<>> THEN DefaultDataDir ELSE cfg.file[1].dataDir

\* A run of the `new` command in a process of its own: a node is appended
\* to the log of the directory config.json names
NodeAdded ==
    /\ cfg.pc = "start"
    /\ cfg.nextNode <= MaxIds
    /\ ConfiguredDir \in WritableDirs
    /\ cfg' = [cfg EXCEPT
         !.logs[ConfiguredDir] =
             Append(@, JsonStringify(MkNode(cfg.nextNode, 1, "a", <<>>,
                                            FALSE, {}))),
         !.exists[ConfiguredDir] = TRUE,
         !.nextNode = @ + 1]
    /\ UNCHANGED outsideConfig

\* process.exit, and the next command starts with a new ConfigManager
NextCommand ==
    /\ cfg.pc = "exit" \/ (cfg.pc = "ready" /\ cfg.flow = "none")
    /\ cfg.ops < MaxConfigOps
    /\ cfg' = NewProcess(cfg.file, cfg.logs, cfg.exists, cfg.ops, cfg.nextNode)
    /\ UNCHANGED outsideConfig

NextConfig ==
    \/ \E up \in BOOLEAN, w \in BOOLEAN : CommandStart(up, w)
    \/ \E model \in ModelNames, up \in BOOLEAN, w \in BOOLEAN :
          CommandSetModel(model, up, w)
    \/ \E value \in DataDirs, up \in BOOLEAN, w \in BOOLEAN :
          FlowSetDataDir(value, up, w)
    \/ \E w \in BOOLEAN : FlowInitialize(w)
    \/ FlowLoad
    \/ \E res \in WriteResults, up \in BOOLEAN, w \in BOOLEAN :
          FlowMigrate(res, up, w)
    \/ \E up \in BOOLEAN, w \in BOOLEAN : FlowRevert(up, w)
    \/ \E w \in BOOLEAN : LibraryInitialize(w)
    \/ LibraryLoad
    \/ \E newPath \in DataDirs, res \in WriteResults, up \in BOOLEAN,
          w \in BOOLEAN : LibraryMigrate(newPath, res, up, w)
    \/ NodeAdded
    \/ NextCommand

----------------------------------------------------------------------------
(* The store and the index together: the index rebuilt from the store, and *)
(* the `new` and `search` commands of the command line                      *)

MaxCliOps == 4

\* the text of a node as MiniSearch tokenizes it: the texts are single words
Terms(text) == IF text = "" THEN <<>> ELSE <<text>>

\* a node of the store as the index sees it
AsDoc(n) == MkDoc(n.id, Terms(n.raw_text), n.tags)

AsDocs(ns) == [i \in 1..Len(ns) |-> AsDoc(ns[i])]

\* the queries typed: a word, with limit: Number(options.limit) || 10
CliQueries ==
    {MkSearchOptions(<<t>>, Some(DefaultLimit), None, None) : t \in {"a", "b"}}

\* search.addNodes(await store.list()) on a new NodeSearch
Rebuild ==
    /\ Quiescent
    /\ nsearch.ops = 0
    /\ AddNodes(AsDocs(List))

\* a search on the index that was rebuilt
SearchRebuilt(o) ==
    /\ nsearch.ops > 0
    /\ Search(o)

\* NodeSearch after addNodes(batch) that did not throw, or after one that did
IndexAfterAdd(s, batch) ==
    [s EXCEPT !.index = AddAll(s.index, batch).index,
              !.threw = AddAll(s.index, batch).threw,
              !.isLoaded = IF AddAll(s.index, batch).threw THEN @ ELSE TRUE,
              !.added = IF AddAll(s.index, batch).threw THEN @ ELSE @ + 1]

\* storage.initialize() and storage.load(), as every command begins: the map
\* after them
LoadedMap == LoadLines(nodes, ReadLines(IF fileExists THEN log ELSE <<>>))

\* the node storage.create(options) makes, its tags from the pipeline
CreatedNode(o, ts, g) ==
    IF CreateNeedsTags(o, isTestMode)
    THEN [NewNode(nextId, ts, o) EXCEPT !.tags = TagServiceGenerateTags(g).tags]
    ELSE NewNode(nextId, ts, o)

\* the `new` command: initialize, load, create, search.addNodes([node])
NewCommand(o, ts, g) ==
    /\ Quiescent
    /\ opCount < MaxCliOps
    /\ nextId <= MaxIds
    /\ fileExists' = TRUE
    /\ log' = Append(IF fileExists THEN log ELSE <<>>,
                     JsonStringify(CreatedNode(o, ts, g)))
    /\ nodes' = MapSet(LoadedMap, nextId, CreatedNode(o, ts, g))
    /\ nextId' = nextId + 1
    /\ opCount' = opCount + 1
    /\ created' = created \cup {CreatedNode(o, ts, g)}
    /\ inst' = [inst EXCEPT !.used = TRUE]
    /\ nsearch' = IndexAfterAdd(SearchOp("new"), <<AsDoc(CreatedNode(o, ts, g))>>)
    /\ UNCHANGED <<isTestMode, calls, createdLog, deleted, retryVars,
                   gatewayVars, tagVars, pipeVars, configVars>>

\* the index the `search` command queries: built from storage.list() when
\* isIndexLoaded() is false
IndexForSearch(s) ==
    IF s.isLoaded THEN s ELSE IndexAfterAdd(s, AsDocs(MapValues(LoadedMap)))

\* the `search` command: initialize, load, the index built if it is not
\* loaded, search.search({ query, limit })
SearchCommand(o) ==
    /\ Quiescent
    /\ opCount < MaxCliOps
    /\ fileExists' = TRUE
    /\ log' = IF fileExists THEN log ELSE <<>>
    /\ nodes' = LoadedMap
    /\ opCount' = opCount + 1
    /\ inst' = [inst EXCEPT !.used = TRUE]
    /\ nsearch' = [IndexForSearch(SearchOp("search")) EXCEPT
            !.options = o,
            !.results =
                IF ~IndexForSearch(SearchOp("search")).isLoaded THEN <<>>
                ELSE Slice(Ranked(IndexForSearch(SearchOp("search")).index, o),
                           o.limit[1])]
    /\ UNCHANGED <<isTestMode, calls, nextId, createdLog, created, deleted,
                   retryVars, gatewayVars, tagVars, pipeVars, configVars>>

\* the process ends, and the next one builds a new NodeStorage and a new
\* NodeSearch over the same log
NextProcess ==
    /\ Quiescent
    /\ inst.used
    /\ nodes' = <<>>
    /\ inst' = NewInstance
    /\ nsearch' = NewNodeSearch
    /\ UNCHANGED <<fileExists, log, isTestMode, calls, nextId, opCount,
                   createdLog, created, deleted, retryVars, gatewayVars,
                   tagVars, pipeVars, configVars>>

NextCli ==
    \/ \E o \in ValidCreateOptions, ts \in Timestamps, g \in GenOutcomes :
          NewCommand(o, ts, g)
    \/ \E o \in CliQueries : SearchCommand(o)
    \/ NextProcess

----------------------------------------------------------------------------
(* The store under serialised use: a call starts when none is in flight *)

StoreInit ==
    /\ fileExists = FALSE
    /\ log = <<>>
    /\ nodes = <<>>
    /\ isTestMode \in BOOLEAN
    /\ calls = [c \in Slots |-> IdleCall]
    /\ nextId = 1
    /\ opCount = 0
    /\ createdLog = TRUE
    /\ created = {}
    /\ deleted = {}
    /\ inst = NewInstance

Init == StoreInit /\ RetryIdle /\ GatewayInit /\ ExtractionInit /\ TagCallInit
        /\ TagGeneratorInit /\ NodeSearchInit /\ ConfigInit

StoreNext(limit) ==
    \/ \E o \in ValidCreateOptions, ts \in Timestamps : StartCreate(limit, o, ts)
    \/ \E c \in Slots : CreateValidated(c)
    \/ \E c \in Slots, g \in GenOutcomes : CreateTagged(c, g)
    \/ \E c \in Slots, ok \in BOOLEAN : CreateAppend(c, ok)
    \/ \E c \in Slots : CreateResume(c)
    \/ \E c \in Slots : PathInvalid(c)
    \/ \E id \in Ids, u \in Partials : StartUpdate(limit, id, u)
    \/ \E c \in Slots : UpdateValidated(c)
    \/ \E c \in Slots, g \in GenOutcomes : UpdateTagged(c, g)
    \/ \E c \in Slots, res \in WriteResults : UpdateWrite(c, res)
    \/ \E c \in Slots : UpdateResume(c)
    \/ \E id \in Ids : StartDelete(limit, id)
    \/ \E c \in Slots : DeleteValidated(c)
    \/ \E c \in Slots, res \in WriteResults : DeleteWrite(c, res)
    \/ \E c \in Slots : DeleteResume(c)
    \/ \E id \in Ids : Get(limit, id)
    \/ StartInitialize(limit)
    \/ \E c \in Slots : InitializeValidated(c)
    \/ \E c \in Slots, ok \in BOOLEAN : InitializeWrite(c, ok)
    \/ StartLoad(limit)
    \/ \E c \in Slots : LoadValidated(c)
    \/ \E c \in Slots : LoadRead(c)
    \/ \E t \in BOOLEAN : Construct(t)

Next == StoreNext(Serial)

Spec == Init /\ [][Next]_vars

\* The same serialised use, over runs one call longer
NextLong == StoreNext(SerialLong)

SpecLong == Init /\ [][NextLong]_vars

----------------------------------------------------------------------------
(* The store with overlapping calls: a call may start while others are     *)
(* suspended at an await                                                   *)

NextConc ==
    \/ \E o \in ValidCreateOptions, ts \in Timestamps :
          StartCreate(Overlapping, o, ts)
    \/ \E c \in Slots : CreateValidated(c)
    \/ \E c \in Slots, g \in GenOutcomes : CreateTagged(c, g)
    \/ \E c \in Slots, ok \in BOOLEAN : CreateAppend(c, ok)
    \/ \E c \in Slots : CreateResume(c)
    \/ \E c \in Slots : PathInvalid(c)
    \/ \E id \in Ids, u \in Partials : StartUpdate(Overlapping, id, u)
    \/ \E c \in Slots : UpdateValidated(c)
    \/ \E c \in Slots, g \in GenOutcomes : UpdateTagged(c, g)
    \/ \E c \in Slots, res \in WriteResults : UpdateWrite(c, res)
    \/ \E c \in Slots : UpdateResume(c)
    \/ \E id \in Ids : StartDelete(Overlapping, id)
    \/ \E c \in Slots : DeleteValidated(c)
    \/ \E c \in Slots, res \in WriteResults : DeleteWrite(c, res)
    \/ \E c \in Slots : DeleteResume(c)
    \/ StartLoad(Overlapping)
    \/ \E c \in Slots : LoadValidated(c)
    \/ \E c \in Slots : LoadRead(c)

SpecConc == Init /\ [][NextConc]_vars

\* Loading a log that was written from outside the store
NextLoad ==
    \/ \E lg \in ForeignLogs : LogWrittenOutside(lg)
    \/ StartLoad(Serial)
    \/ \E c \in Slots : LoadValidated(c)
    \/ \E c \in Slots : LoadRead(c)
    \/ \E c \in Slots : PathInvalid(c)
    \/ \E t \in BOOLEAN : Construct(t)

SpecLoad == Init /\ [][NextLoad]_vars

----------------------------------------------------------------------------
(* Properties of the Node Store *)

Range(f) == {f[i] : i \in DOMAIN f}
Mutating == {"create", "update", "delete"}

\* C1: while a create call is in flight, no step other than its successful
\* return changes the in-memory map; and once its append has failed the call
\* ends with a StorageError, returns no node and leaves the map as it was.
C1_CreateAtomic ==
    [][\A c \in Slots :
        (calls[c].op = "create" /\ InFlight(c)) =>
            /\ (~(calls'[c].pc = "done" /\ calls'[c].outcome = "ok")
                  => nodes' = nodes)
            /\ (calls[c].ioError =>
                  /\ calls'[c].pc = "done"
                  /\ calls'[c].outcome = "StorageError"
                  /\ calls'[c].ret = NoNode
                  /\ nodes' = nodes)]_vars

C1_Witness ==
    \E c \in Slots :
        /\ calls[c].op = "create" /\ calls[c].pc = "done"
        /\ calls[c].ioError /\ calls[c].outcome = "StorageError"
        /\ Len(nodes) > 0

\* C2: when the log was built by successful create calls only, a load that
\* is the first call on a new instance leaves a map whose list() holds each
\* created id exactly once and nothing else, and get(id) is a node equal to
\* the one create returned.
C2_AppendDurability ==
    \A c \in Slots :
        (/\ calls[c].op = "load" /\ calls[c].pc = "done"
         /\ calls[c].outcome = "ok" /\ calls[c].first /\ createdLog) =>
            /\ Len(List) = Cardinality(created)
            /\ \A i \in 1..Len(List) : \E n \in created : n.id = List[i].id
            /\ \A n \in created :
                /\ Cardinality({i \in 1..Len(List) : List[i].id = n.id}) = 1
                /\ MapHas(nodes, n.id)
                /\ NodeEq(MapGet(nodes, n.id), n)

C2_Witness ==
    \E c \in Slots :
        /\ calls[c].op = "load" /\ calls[c].pc = "done"
        /\ calls[c].outcome = "ok" /\ calls[c].first /\ createdLog
        /\ Cardinality(created) = 2
        /\ \E n \in created : <<"source", Undefined>> \in n.metadata
        /\ \E n \in created : n.tags = <<"#g">>

\* C3: a successful rewrite by update keeps, in the log, every node with
\* another id that was in the log before.
C3_UpdateKeepsOtherNodes ==
    [][\A c \in Slots :
        (/\ calls[c].op = "update" /\ calls[c].pc = "io"
         /\ calls'[c].pc = "resume" /\ ~calls'[c].ioError) =>
            \A n \in LogNodes(log) :
                n.id # calls[c].id => n \in LogNodes(log')]_vars

\* C4: a create call whose tag pipeline failed raises nothing on that
\* account: unless the append itself fails it returns the node with no tags,
\* and the node is in the map and on a line of the log.
C4_TagFailureNonFatal ==
    \A c \in Slots :
        (/\ calls[c].op = "create" /\ calls[c].pc = "done"
         /\ calls[c].tagError # "none") =>
            /\ calls[c].outcome = IF calls[c].ioError THEN "StorageError"
                                  ELSE "ok"
            /\ (calls[c].outcome = "ok" =>
                  /\ calls[c].ret.id = calls[c].id
                  /\ calls[c].ret.tags = <<>>
                  /\ MapHas(nodes, calls[c].id)
                  /\ MapGet(nodes, calls[c].id) = calls[c].ret
                  /\ JsonStringify(calls[c].ret) \in Range(log))

C4_Witness ==
    \E c \in Slots :
        /\ calls[c].op = "create" /\ calls[c].pc = "done"
        /\ calls[c].tagError = "VALIDATION_ERROR"
        /\ calls[c].outcome = "ok"
        /\ Len(log) = 2

\* C5: an id deleted successfully on this instance is no key of the map
\* (get raises not-found) and no node of list() has it.
C5_DeleteThenGet ==
    \A id \in deleted :
        /\ ~MapHas(nodes, id)
        /\ \A i \in 1..Len(List) : List[i].id # id

\* C6: a get, update or delete call on an id that is no key of the map ends
\* at once with NodeNotFoundError (not StorageError) and changes neither the
\* log file nor the map.
C6_NotFound ==
    [][(/\ opCount' = opCount + 1
        /\ calls'[FreeSlot].op \in {"get", "update", "delete"}
        /\ ~MapHas(nodes, calls'[FreeSlot].id)) =>
            /\ calls'[FreeSlot].pc = "done"
            /\ calls'[FreeSlot].outcome = "NodeNotFoundError"
            /\ UNCHANGED <<fileExists, log, nodes>>]_vars

C6_Witness ==
    /\ \E c \in Slots :
        /\ calls[c].op = "delete" /\ calls[c].pc = "done"
        /\ calls[c].outcome = "NodeNotFoundError"
    /\ Len(nodes) > 0

\* C7: no two nodes of list() have the same id and no id is on two lines of
\* the log.
C7_UniqueIds ==
    /\ \A i, j \in 1..Len(List) : List[i].id = List[j].id => i = j
    /\ \A i, j \in 1..Len(log) :
        (~IsBlank(log[i]) /\ ~IsBlank(log[j])
         /\ JsonParse(log[i]).id = JsonParse(log[j]).id) => i = j

\* C8: every entry of the map holds a node whose id is its key, and update
\* returns a node whose id is the id it was called with.
C8_IdImmutable ==
    /\ \A i \in 1..Len(nodes) : nodes[i].node.id = nodes[i].key
    /\ \A c \in Slots :
        (calls[c].op = "update" /\ calls[c].pc = "done"
         /\ calls[c].outcome = "ok") => calls[c].ret.id = calls[c].id

\* A node of the map that is on no line of the log
MapAheadOfLog ==
    \E i \in 1..Len(nodes) : JsonStringify(nodes[i].node) \notin Range(log)

\* C9: when no call is in flight, a node of the map is missing from the log
\* only if calls overlapped (or a rejected write emptied the log, or a
\* node's id was overwritten); with overlapping calls that state is reached
\* although both calls returned successfully.
C9_LostWriteNeedsOverlap ==
    (Quiescent /\ MapAheadOfLog) =>
        (inst.raced \/ inst.damaged \/ inst.rekeyed)

C9_Witness ==
    /\ Quiescent /\ inst.raced /\ ~inst.damaged /\ ~inst.rekeyed
    /\ \A c \in Slots : calls[c].op \in Mutating /\ calls[c].outcome = "ok"
    /\ \E c \in Slots :
        /\ calls[c].op = "create"
        /\ MapHas(nodes, calls[c].id)
        /\ MapGet(nodes, calls[c].id) = calls[c].ret
        /\ \A n \in LogNodes(log) : n.id # calls[c].id
        /\ \E d \in Slots :
            calls[d].op \in {"update", "delete"} /\ calls[d].id # calls[c].id

----------------------------------------------------------------------------
(* The Retry Executor on its own *)

SpecRetry == Init /\ [][NextRetry]_vars

\* C10: when retry gives up, what it raises is the error object the last
\* invocation of fn threw: same message, same identity.
C10_RaisesLastError ==
    \A k \in RetrySlots :
        (rcalls[k].pc = "done" /\ rcalls[k].result = "threw") =>
            /\ rcalls[k].invoked >= 1
            /\ rcalls[k].thrown = rcalls[k].fnError
            /\ rcalls[k].thrown.call = k
            /\ rcalls[k].thrown.n = rcalls[k].invoked

C10_Witness ==
    \E k \in RetrySlots :
        /\ rcalls[k].pc = "done" /\ rcalls[k].result = "threw"
        /\ rcalls[k].invoked = rcalls[k].config.maxRetries + 1
        /\ rcalls[k].invoked >= 3

\* The calls of retry whose progress is followed to their end
LiveSlots == 1..MaxLiveCalls

NextRetryLive ==
    \/ \E k \in LiveSlots, config \in RetryConfigs : RetryStart(k, config)
    \/ \E k \in LiveSlots : FnResolves(k)
    \/ \E k \in LiveSlots, t \in Thrown : FnRejects(k, t)
    \/ \E k \in LiveSlots : TimerFires(k)

\* Every invocation of fn settles and every timer fires
RetryFairness ==
    \A k \in LiveSlots :
        /\ WF_vars(FnResolves(k) \/ \E t \in Thrown : FnRejects(k, t))
        /\ WF_vars(TimerFires(k))

SpecRetryLive == Init /\ [][NextRetryLive]_vars /\ RetryFairness

Min(a, b) == IF a < b THEN a ELSE b

RECURSIVE Pow(_, _)
Pow(b, e) == IF e = 0 THEN 1 ELSE b * Pow(b, e - 1)

\* C11: a call that returns after k retryable failures has invoked fn k+1
\* times, and its i-th wait lasted min(initialDelay * factor^(i-1), maxDelay).
C11_Backoff ==
    \A k \in RetrySlots :
        LET r == rcalls[k] IN
        (r.pc = "done" /\ r.result = "ok") =>
            /\ r.invoked = Len(r.waits) + 1
            /\ \A i \in 1..Len(r.waits) :
                 r.waits[i] = Min(r.config.initialDelay
                                    * Pow(r.config.factor, i - 1),
                                  r.config.maxDelay)

\* C12: every delay retry waits is at most maxDelay.
C12_DelayCapped ==
    \A k \in RetrySlots :
        \A i \in 1..Len(rcalls[k].waits) :
            rcalls[k].waits[i] <= rcalls[k].config.maxDelay

\* C13: once fn has failed with an error isRetryable rejects, the call is
\* over: fn is not invoked again (once in all if that was the first
\* failure), no delay is waited for, and that error is what retry raises.
C13_NonRetryableShortCircuit ==
    \A k \in RetrySlots :
        LET r == rcalls[k] IN
        (r.fnError # UndefinedError /\ NotRetryable(r.config, r.fnError)) =>
            /\ r.pc = "done" /\ r.result = "threw"
            /\ r.thrown = r.fnError
            /\ r.invoked = r.fnError.n
            /\ Len(r.waits) = r.invoked - 1
            /\ (r.fnError.n = 1 => r.invoked = 1 /\ r.waits = <<>>)

C13_Witness ==
    /\ \E k \in RetrySlots :
        /\ rcalls[k].fnError # UndefinedError
        /\ NotRetryable(rcalls[k].config, rcalls[k].fnError)
        /\ rcalls[k].config.maxRetries > 0
        /\ rcalls[k].invoked = 1
    /\ \E k \in RetrySlots :
        /\ rcalls[k].fnError # UndefinedError
        /\ NotRetryable(rcalls[k].config, rcalls[k].fnError)
        /\ rcalls[k].invoked = 2
        /\ rcalls[k].invoked <= rcalls[k].config.maxRetries

\* The number of invocations of a call stays within 1..maxRetries+1, and
\* reaches maxRetries+1 when the call gives up on a retryable error
C14_Bounds ==
    \A k \in RetrySlots :
        LET r == rcalls[k] IN
        (r.pc # "idle" /\ r.config.maxRetries >= 0) =>
            /\ 1 <= r.invoked
            /\ r.invoked <= r.config.maxRetries + 1
            /\ (r.pc = "done" /\ r.result = "threw"
                  /\ ~NotRetryable(r.config, r.fnError))
               => r.invoked = r.config.maxRetries + 1

\* A call that is over (returned or raised) never changes again
C14_OverIsOver ==
    \A k \in RetrySlots : rcalls[k].pc = "done" => rcalls'[k] = rcalls[k]

\* C14: retry terminates when fn does: every call that was started is over
\* in the end, having invoked fn between once and maxRetries+1 times
\* (maxRetries+1 times when every attempt failed with a retryable error),
\* and never again after it returned.
C14_Terminates ==
    /\ []C14_Bounds
    /\ [][C14_OverIsOver]_vars
    /\ \A k \in RetrySlots : (rcalls[k].pc # "idle") ~> (rcalls[k].pc = "done")

C14_Witness ==
    \E k \in RetrySlots :
        /\ rcalls[k].pc = "done" /\ rcalls[k].result = "threw"
        /\ ~NotRetryable(rcalls[k].config, rcalls[k].fnError)
        /\ rcalls[k].config.maxRetries = 3
        /\ rcalls[k].invoked = 4

RECURSIVE SoloDelay(_, _)
\* the delay of a call running alone, after i waits
SoloDelay(config, i) ==
    IF i = 0 THEN config.initialDelay
    ELSE NextDelay(config, SoloDelay(config, i - 1))

\* C15: whatever the other calls do, a call waits the delays it would wait
\* alone, invokes fn once per attempt, and raises an error of its own fn.
C15_Independent ==
    \A k \in RetrySlots :
        LET r == rcalls[k] IN
        (r.pc # "idle" /\ r.config.maxRetries >= 0) =>
            /\ r.waits = [i \in 1..Len(r.waits) |-> SoloDelay(r.config, i - 1)]
            /\ r.delay = SoloDelay(r.config, r.attempt)
            /\ r.invoked = r.attempt + 1
            /\ Len(r.waits) = IF r.pc = "wait" THEN r.invoked
                               ELSE r.invoked - 1
            /\ r.lastError.call \in {0, k}
            /\ (r.result = "threw" => r.thrown.call = k)

C15_Witness ==
    \E j, k \in RetrySlots :
        /\ j # k
        /\ rcalls[j].config # rcalls[k].config
        /\ rcalls[j].pc = "wait" /\ Len(rcalls[j].waits) = 2
        /\ rcalls[k].pc = "attempt" /\ Len(rcalls[k].waits) = 2
        /\ rcalls[j].delay # rcalls[k].delay

----------------------------------------------------------------------------
(* The gateway on its own, and extractTags on its own *)

SpecGateway == Init /\ [][NextGateway]_vars

SpecExtract == Init /\ [][NextExtract]_vars

SpecTagCall == Init /\ [][NextTagCall]_vars

SpecGenerate == Init /\ [][NextGenerate]_vars

SpecSearch == Init /\ [][NextSearch]_vars

SpecConfig == Init /\ [][NextConfig]_vars

\* The store in serialised use, then the index rebuilt from it and queried
NextRebuild ==
    \/ nsearch.ops = 0 /\ StoreNext(Serial)
    \/ Rebuild
    \/ \E o \in CliQueries : SearchRebuilt(o)

SpecRebuild == Init /\ [][NextRebuild]_vars

SpecCli == Init /\ [][NextCli]_vars

\* C16: once an initialize call has succeeded on the instance, isReady()
\* is true in every later state, whatever calls follow and however they end.
C16_ReadyIsForever == ollama.initOk => IsReady

C16_Witness ==
    /\ ollama.initOk
    /\ ollama.initFailed
    /\ \E g \in GatewaySlots :
        /\ gcalls[g].op = "initialize" /\ gcalls[g].pc = "done"
        /\ gcalls[g].initOkAtStart
        /\ gcalls[g].result = "threw"
        /\ IsModelError(gcalls[g].error)
        /\ gcalls[g].error.code = "MODEL_NOT_FOUND"

\* C17: as long as no initialize call has succeeded on the instance,
\* isReady() is false, and a generate call fails with NOT_INITIALIZED at
\* once, no request having been sent.
C17_NotInitialized ==
    /\ ~ollama.initOk => ~IsReady
    /\ \A g \in GatewaySlots :
        (gcalls[g].op = "generate" /\ ~gcalls[g].initOkAtStart) =>
            /\ gcalls[g].pc = "done" /\ gcalls[g].result = "threw"
            /\ gcalls[g].error.code = "NOT_INITIALIZED"
            /\ rcalls[g].invoked = 0

C17_Witness ==
    /\ ~ollama.initOk
    /\ ollama.initFailed
    /\ \E g \in GatewaySlots :
        /\ gcalls[g].op = "generate" /\ gcalls[g].pc = "done"
        /\ gcalls[g].error.code = "NOT_INITIALIZED"

\* the model is in no way among the names the server listed
Absent(model, models) ==
    \A m \in models : m # model /\ BaseName(m) # model

HasCode(e, code) == IsModelError(e) /\ e.code = code

\* C18: an initialize call with a temperature outside [0,1] fails with
\* INVALID_CONFIG, no request sent; one whose model is absent from the
\* enumeration it got fails with MODEL_NOT_FOUND; one whose enumeration
\* request failed in transport does not fail with MODEL_NOT_FOUND.
C18_InitializeClassifies ==
    \A g \in GatewaySlots :
        (gcalls[g].op = "initialize" /\ gcalls[g].pc = "done") =>
            /\ ~TemperatureOk(gcalls[g].config.temperature) =>
                 /\ gcalls[g].result = "threw"
                 /\ HasCode(gcalls[g].error, "INVALID_CONFIG")
                 /\ rcalls[g].invoked = 0
            /\ (gcalls[g].listed # None
                  /\ Absent(gcalls[g].config.model, gcalls[g].listed[1])) =>
                 /\ gcalls[g].result = "threw"
                 /\ HasCode(gcalls[g].error, "MODEL_NOT_FOUND")
            /\ (rcalls[g].invoked >= 1 /\ gcalls[g].listed = None) =>
                 /\ gcalls[g].result = "threw"
                 /\ ~HasCode(gcalls[g].error, "MODEL_NOT_FOUND")
                 /\ gcalls[g].error = rcalls[g].fnError

C18_Witness ==
    \E g \in GatewaySlots :
        /\ gcalls[g].op = "initialize" /\ gcalls[g].pc = "done"
        /\ gcalls[g].listed # None
        /\ Absent(gcalls[g].config.model, gcalls[g].listed[1])
        /\ HasCode(gcalls[g].error, "MODEL_NOT_FOUND")
        /\ rcalls[g].invoked = 2

\* C19: a generate call on a ready instance sends at most maxRetries+1
\* requests under the policy of the instance, none after an error the
\* policy does not retry; when it fails it raises GENERATION_FAILED with the
\* last error of the backend as cause, and the instance is still ready.
C19_GenerationFailed ==
    \A g \in GatewaySlots :
        (gcalls[g].op = "generate" /\ gcalls[g].readyAtStart) =>
            /\ IsReady
            /\ rcalls[g].config = gcalls[g].policy
            /\ rcalls[g].invoked <= gcalls[g].policy.maxRetries + 1
            /\ (rcalls[g].fnError # UndefinedError
                  /\ NotRetryable(gcalls[g].policy, rcalls[g].fnError)) =>
                 rcalls[g].invoked = rcalls[g].fnError.n
            /\ (gcalls[g].pc = "done" /\ gcalls[g].result = "threw") =>
                 /\ HasCode(gcalls[g].error, "GENERATION_FAILED")
                 /\ gcalls[g].error.cause = rcalls[g].fnError
                 /\ rcalls[g].fnError.n = rcalls[g].invoked

C19_Witness ==
    \E g \in GatewaySlots :
        /\ gcalls[g].op = "generate" /\ gcalls[g].readyAtStart
        /\ gcalls[g].pc = "done" /\ gcalls[g].result = "threw"
        /\ rcalls[g].invoked = gcalls[g].policy.maxRetries + 1
        /\ rcalls[g].invoked >= 2
        /\ gcalls[g].error.cause.n = rcalls[g].invoked

OneWordPerLine(response) ==
    LET lines == SplitAt(response, {"\n"}) IN
    /\ Len(lines) >= 2
    /\ \A i \in 1..Len(lines) :
        /\ lines[i] # <<>>
        /\ KeepsCandidate(lines[i])
        /\ \A j \in 1..Len(lines[i]) : lines[i][j] \in FormatCharacters

\* the same list written with commas
WithCommas(response) ==
    [i \in 1..Len(response) |->
        IF response[i] = "\n" THEN "," ELSE response[i]]

\* C21: from a response that lists valid one-word tags one per line,
\* extractTags returns each line as a candidate of its own, which is what it
\* returns from the same list written with commas ("foo\nbar" gives foo
\* and bar).
C21_SplitsOnNewlines ==
    (extraction.pc = "returned" /\ OneWordPerLine(extraction.response)) =>
        /\ extraction.tags = SplitAt(extraction.response, {"\n"})
        /\ extraction.tags = ExtractTags(WithCommas(extraction.response))
        /\ extraction.response = FooBarLines =>
             extraction.tags = <<Foo, Bar>>

\* a tag the default rules accept: 2 to 50 characters, all of the class
WellFormed(tag) ==
    /\ Len(tag) >= 2 /\ Len(tag) <= 50
    /\ \A i \in 1..Len(tag) : tag[i] \in FormatCharacters

\* C23: the default rules accept a candidate exactly when its length is
\* between 2 and 50 inclusive and all its characters belong to
\* [A-Za-z0-9_-]; a tag of 2 and one of 50 characters pass, a tag of 1 and
\* one of 51 characters fail the length rule.
C23_DefaultRules ==
    (tagcall.pc = "returned" /\ tagcall.method = "processTags"
       /\ tagcall.config.validationRules = <<>>) =>
        /\ tagcall.threw <=>
             \E i \in 1..Len(tagcall.input) : ~WellFormed(tagcall.input[i])
        /\ \A t \in {<<"f", "o">>, LongestTag} :
             tagcall.input = <<t>> => ~tagcall.threw
        /\ \A t \in {<<"f">>, TooLongTag} :
             tagcall.input = <<t>> =>
                tagcall.threw /\ tagcall.error.rule = "length"

C23_Witness ==
    /\ tagcall.pc = "returned" /\ tagcall.method = "processTags"
    /\ tagcall.config.validationRules = <<>>
    /\ tagcall.input = <<LongestTag, TooLongTag>>
    /\ tagcall.threw
    /\ tagcall.error.tag = TooLongTag

\* s is t with some entries left out, the order kept
RECURSIVE IsSubsequence(_, _)
IsSubsequence(s, t) ==
    IF s = <<>> THEN TRUE
    ELSE IF t = <<>> THEN FALSE
    ELSE IF Head(s) = Head(t) THEN IsSubsequence(Tail(s), Tail(t))
    ELSE IsSubsequence(s, Tail(t))

\* C24: filterTags truncates to the first maxTags tags, then drops the tags
\* under minRelevance, then (deduplicate being set) the tags whose text was
\* seen before, ignoring case: what it returns is a subsequence of the first
\* maxTags tags given, without a tag under minRelevance and without two
\* texts equal ignoring case, and it keeps every tag of the first maxTags
\* that is relevant and not such a repetition; from foo, FOO, bar it
\* returns foo, bar.
C24_FilterOrder ==
    (tagcall.pc = "returned" /\ tagcall.method = "filterTags"
       /\ tagcall.config.deduplicate) =>
        LET c == tagcall.config
            first == IF c.maxTags = None THEN tagcall.input
                     ELSE Slice(tagcall.input, c.maxTags[1])
            out == tagcall.result
        IN /\ IsSubsequence(out, first)
           /\ c.minRelevance # None =>
                \A i \in 1..Len(out) : out[i].relevance >= c.minRelevance[1]
           /\ \A i, j \in 1..Len(out) :
                i # j => ToLowerCase(out[i].text) # ToLowerCase(out[j].text)
           /\ \A i \in 1..Len(first) :
                (c.minRelevance # None =>
                    first[i].relevance >= c.minRelevance[1]) =>
                    \E j \in 1..Len(out) :
                        ToLowerCase(out[j].text) = ToLowerCase(first[i].text)
           /\ tagcall.input = <<MkTag(Foo, FullRelevance),
                                MkTag(FooUpper, FullRelevance),
                                MkTag(Bar, FullRelevance)>>
                /\ c.maxTags = Some(DefaultMaxTags) =>
                out = <<MkTag(Foo, FullRelevance), MkTag(Bar, FullRelevance)>>

\* the name of the first rule a candidate fails, the default rules first
ExpectedRule(tag, custom) ==
    IF Len(tag) < 2 \/ Len(tag) > 50 THEN "length"
    ELSE IF \E i \in 1..Len(tag) : tag[i] \notin FormatCharacters THEN "format"
    ELSE IF custom # <<>> /\ tag # ToLowerCase(tag) THEN custom[1]
    ELSE "none"

\* C22: when a candidate extracted from the response fails a rule, the
\* default rules (length, then format) being tried before the custom ones,
\* generateTags returns no tags and throws a TagError of code
\* VALIDATION_ERROR that carries the first such candidate and the name of
\* the first rule it fails.
C22_ValidationIsHard ==
    LET custom == tgen.merged.validationRules
        failing == {i \in 1..Len(tgen.candidates) :
                       ExpectedRule(tgen.candidates[i], custom) # "none"}
    IN (tgen.pc \in {"returned", "threw"} /\ failing # {}) =>
         /\ tgen.pc = "threw"
         /\ tgen.tags = <<>>
         /\ tgen.error.isTagError
         /\ tgen.error.code = "VALIDATION_ERROR"
         /\ \E i \in failing :
              /\ \A h \in failing : i <= h
              /\ tgen.error.tag = tgen.candidates[i]
              /\ tgen.error.rule = ExpectedRule(tgen.candidates[i], custom)

C22_Witness ==
    /\ tgen.pc = "threw"
    /\ tgen.candidates = <<Foo, <<"F", "~">> >>
    /\ tgen.merged.validationRules = <<LowercaseRule>>
    /\ tgen.error.code = "VALIDATION_ERROR"
    /\ tgen.error.tag = <<"F", "~">>
    /\ tgen.error.rule = "format"

\* what TagService.generateTags hands to the store, which writes it on the
\* node as it is: the text of each tag generateTags returned
PersistedTags == [i \in 1..Len(tgen.tags) |-> tgen.tags[i].text]

\* C25: every tag text the pipeline hands to the Node Store, in its
\* formatted form, satisfies the validation rules: 2 to 50 characters, all
\* of [A-Za-z0-9_-].
C25_PersistedTagsValid ==
    tgen.pc = "returned" =>
        \A i \in 1..Len(PersistedTags) : WellFormed(PersistedTags[i])

\* C26: a generateTags call that fails throws a TagError whose code is one
\* of INITIALIZATION_ERROR, MODEL_ERROR, VALIDATION_ERROR, FORMAT_ERROR and
\* GENERATION_ERROR; the code is GENERATION_ERROR when generate of the model
\* failed, and FORMAT_ERROR when validated tags met a format that is not
\* recognised or a custom format without a template.
C26_ErrorCodes ==
    /\ tgen.pc = "threw" =>
         /\ tgen.error.isTagError
         /\ tgen.error.code \in TagErrorCodes
         /\ tgen.rejected => tgen.error.code = "GENERATION_ERROR"
    /\ (tgen.pc \in {"returned", "threw"} /\ tgen.validated
          /\ tgen.candidates # <<>>
          /\ \/ tgen.merged.format \notin {"hashtag", "plain", "custom"}
             \/ tgen.merged.format = "custom"
                  /\ tgen.merged.customFormat = None) =>
         /\ tgen.pc = "threw"
         /\ tgen.error.isTagError
         /\ tgen.error.code = "FORMAT_ERROR"

C26_Witness ==
    /\ tgen.pc = "threw"
    /\ tgen.rejected
    /\ tgen.error.code = "GENERATION_ERROR"
    /\ tgen.error.cause = "ModelError"
    /\ tgen.started = 2

C26_FormatWitness ==
    /\ tgen.pc = "threw"
    /\ tgen.merged.format = "invalid"
    /\ tgen.error.code = "FORMAT_ERROR"

C28_TopOfRanking ==
    (nsearch.op = "search" /\ nsearch.loadedBefore) =>
        LET o == nsearch.options
            limit == IF o.limit = None THEN 10 ELSE o.limit[1]
            floor == IF o.minScore = None THEN 0 ELSE o.minScore[1]
            out == nsearch.results
            all == Matching(nsearch.index, o)
        IN /\ Len(out) <= limit
           /\ \A i \in 1..Len(out) :
                /\ out[i].score >= floor
                /\ \E k \in 1..Len(all) : all[k] = out[i]
                /\ \A j \in 1..(i - 1) :
                     out[j].score >= out[i].score /\ out[j] # out[i]
           /\ \A k \in 1..Len(all) :
                (all[k].score >= floor
                   /\ \A i \in 1..Len(out) : out[i] # all[k]) =>
                    /\ Len(out) = limit
                    /\ \A i \in 1..Len(out) : out[i].score >= all[k].score

C28_Witness ==
    /\ nsearch.op = "search"
    /\ nsearch.options.limit = None
    /\ Len(nsearch.results) = 10
    /\ Len(Matching(nsearch.index, nsearch.options)) > 10

C28_FilterWitness ==
    /\ nsearch.op = "search"
    /\ nsearch.options.minScore = Some(9)
    /\ Len(Matching(nsearch.index, nsearch.options)) = 2
    /\ Len(nsearch.results) = 1

\* C29: once removeNode(id) was called on a loaded index, no search
\* returns a node of that id until a node of that id is added again; the
\* call leaves the other nodes of the index as they were.
C29_RemovedStaysOut ==
    /\ nsearch.op = "search" =>
         \A i \in 1..Len(nsearch.results) :
            nsearch.results[i].node.id \notin nsearch.gone
    /\ (nsearch.op = "removeNode" /\ nsearch.loadedBefore) =>
         LET other(d) == d.id # nsearch.id
         IN /\ nsearch.id \notin IndexIds(nsearch.index)
            /\ nsearch.index = SelectSeq(nsearch.before, other)

C29_Witness ==
    /\ nsearch.op = "search"
    /\ nsearch.gone = {1}
    /\ nsearch.options.query = <<Python>>
    /\ Len(nsearch.results) = 1
    /\ nsearch.results[1].node.id = 2
    /\ Len(nsearch.index) = 1

\* C30: in whatever state of the index updateNode(node) is called, the
\* index then holds exactly one entry of node.id, with the raw_text and the
\* tags of the node given, and a search finds the node by its new content.
C30_UpdateReplaces ==
    nsearch.op = "updateNode" =>
        /\ ~nsearch.threw
        /\ Cardinality({i \in 1..Len(nsearch.index) :
                          nsearch.index[i].id = nsearch.node.id}) = 1
        /\ \E i \in 1..Len(nsearch.index) : nsearch.index[i] = nsearch.node
        /\ IsIndexLoaded

----------------------------------------------------------------------------
\* C34: load() tolerates bad lines: whenever load has read an existing log, it
\* has not been aborted by a malformed line, and every well-formed line of
\* the log, before or after a malformed one, is in the in-memory map.
C34_LoadToleratesBadLines ==
    [][\A c \in Slots :
          (calls[c].op = "load" /\ calls[c].pc = "io" /\ fileExists
             /\ calls'[c].pc = "done")
          => /\ calls'[c].outcome = "ok"
             /\ \A i \in 1..Len(log) :
                   (~IsBlank(log[i]) /\ ~IsMalformed(log[i]))
                   => \E k \in 1..Len(nodes') :
                         nodes'[k].node = JsonParse(log[i])]_vars

----------------------------------------------------------------------------
\* the partial carries a raw_text that differs from the stored one
RawTextChanged(c) ==
    /\ "raw_text" \in calls[c].updates.has
    /\ calls[c].updates.raw_text # MapGet(nodes, calls[c].id).raw_text

\* C35: update regenerates tags exactly when raw_text changed and tag
\* generation is enabled: a changed raw_text (the empty string included)
\* sends the call to the pipeline, whose result (empty on failure) becomes
\* the tags; otherwise the pipeline is not invoked and the tags are those of
\* the merge of the stored node with the partial.
C35_RegeneratesOnChange ==
    [][\A c \in Slots :
          /\ (calls[c].op = "update" /\ calls[c].pc = "validate"
                /\ calls'[c].pc \in {"tags", "io"})
             => IF RawTextChanged(c) /\ ~isTestMode
                THEN calls'[c].pc = "tags"
                ELSE /\ calls'[c].pc = "io"
                     /\ calls'[c].node.tags =
                          Merge(MapGet(nodes, calls[c].id),
                                calls[c].updates).tags
          /\ (calls[c].op = "update" /\ calls[c].pc = "tags"
                /\ calls'[c].pc = "io")
             => \E g \in GenOutcomes :
                   calls'[c].node.tags = IF g.ok THEN g.tags ELSE <<>>]_vars

----------------------------------------------------------------------------
\* C36: update and delete write the log before touching the in-memory map:
\* the map is unchanged by every step of the call but its successful last
\* one, and a whole-file rewrite that fails is not followed by another write:
\* the call ends with StorageError wrapping the I/O error, the map as it was.
C36_WriteBeforeMap ==
    [][\A c \in Slots :
          (calls[c].op \in {"update", "delete"} /\ InFlight(c)
             /\ calls'[c] # calls[c])
          => /\ (calls'[c].pc = "done" /\ calls'[c].outcome = "ok")
                \/ nodes' = nodes
             /\ (calls[c].pc = "io" /\ calls'[c].ioError)
                => calls'[c].pc = "resume"
             /\ (calls[c].pc = "resume" /\ calls[c].ioError)
                => /\ calls'[c].pc = "done"
                   /\ calls'[c].outcome = "StorageError"
                   /\ calls'[c].ioError
                   /\ log' = log]_vars

\* an update whose rewrite failed has returned, and the map holds the old text
C36_Witness ==
    \E c \in Slots :
        /\ calls[c].op = "update" /\ calls[c].pc = "done"
        /\ calls[c].outcome = "StorageError" /\ calls[c].ioError
        /\ calls[c].updates.has = {"raw_text"}
        /\ MapHas(nodes, calls[c].id)
        /\ MapGet(nodes, calls[c].id).raw_text # calls[c].updates.raw_text

----------------------------------------------------------------------------
\* the nodes on the lines of the log are the nodes of the map
LogAgreesWithMap ==
    /\ \A n \in LogNodes(log) :
          \E k \in 1..Len(nodes) : NodeEq(nodes[k].node, n)
    /\ \A k \in 1..Len(nodes) :
          \E n \in LogNodes(log) : NodeEq(nodes[k].node, n)

\* C37: log/cache agreement under serialised use: on an instance whose load
\* completed before its first mutation and whose calls never overlap, after
\* each completed operation, successful or failed, the nodes parsed from the
\* log line by line are the nodes of the in-memory map.
C37_LogCacheAgreement ==
    (inst.loadedFirst /\ ~inst.raced /\ Quiescent) => LogAgreesWithMap

----------------------------------------------------------------------------
\* C38: whenever an OllamaModel instance is Ready, the model named in its
\* current configuration, the one generate sends to the backend, is a model
\* that a successful initialize verified as available (looked at when no
\* call is in flight, so that a failed initialize has left the configuration
\* as it was before the call).
C38_ReadyModelVerified ==
    (IsReady /\ \A g \in DOMAIN gcalls : gcalls[g].pc \in {"idle", "done"})
    => ollama.config.model \in ollama.verified

----------------------------------------------------------------------------
\* C32: migrateData(newPath) either succeeds, and then the new log holds all
\* in-memory nodes and the configured data directory is newPath, or it raises
\* and leaves the configuration unchanged: getDataDir() and the persisted
\* configuration still name the old data directory.
C32_MigrateOrUnchanged ==
    cfg.op = "migrateData"
    => IF cfg.outcome = "ok"
       THEN /\ cfg.config.dataDir = cfg.arg
            /\ \A k \in 1..Len(cfg.nodes) :
                  cfg.nodes[k].node \in LogNodes(cfg.logs[cfg.arg])
       ELSE /\ cfg.config.dataDir = cfg.before.dataDir
            /\ cfg.file = cfg.beforeFile

\* C33: configuration errors fail fast: when ConfigManager.initialize meets a
\* configuration that fails validation, the call raises; it does not put a
\* default in its place and return as if it had succeeded.
C33_ConfigFailsFast ==
    (cfg.op = "initialize" /\ cfg.metInvalid) => cfg.outcome # "ok"

\* C40: changing the data directory keeps the data: when the flow of
\* `config set dataDir <new>` has completed successfully, the log at the new
\* directory holds every node that was in the log of the directory
\* configured before.
C40_MigrationKeepsData ==
    (cfg.flow = "succeeded" /\ cfg.flowConfig.dataDir \in WritableDirs)
    => LogNodes(cfg.flowLogs[cfg.flowConfig.dataDir])
          \subseteq LogNodes(cfg.logs[cfg.flowValue])

----------------------------------------------------------------------------
\* C31: rebuilding the index from the store gives a faithful view: after
\* addNodes(store.list()) on a fresh index the index is loaded and holds the
\* nodes of the store, and a query for a text that only one node has returns
\* exactly one result, that node.
C31_RebuildIsFaithful ==
    nsearch.ops > 0
    => /\ nsearch.isLoaded
       /\ nsearch.index = AsDocs(List)
       /\ nsearch.op = "search"
          => \A k \in 1..Len(nodes) :
                (/\ nsearch.options.query = Terms(nodes[k].node.raw_text)
                 /\ \A j \in 1..Len(nodes) :
                       nodes[j].node.raw_text = nodes[k].node.raw_text => j = k)
                => /\ Len(nsearch.results) = 1
                   /\ nsearch.results[1].node.id = nodes[k].node.id

\* C39: in the command flows every store change is mirrored so that search
\* sees the whole store: at the moment a `search` command queries the index,
\* the index holds every node of storage.list().
C39_SearchSeesWholeStore ==
    nsearch.op = "search"
    => \A k \in 1..Len(nodes) : nodes[k].node.id \in IndexIds(nsearch.index)

====
